---- MODULE Spec2Model ----
(***************************************************************************)
(* Model of the incremental synchronisation engine of niveshpy / mftools:  *)
(* Nivesh.get_tickers (catalog sync), Nivesh._get_quotes (gap detection,    *)
(* batching, fetch, ledger, merge, persist) and the helpers they call.      *)
(* Tables (polars frames) are bags of rows: functions from rows to counts.  *)
(***************************************************************************)
EXTENDS Integers, Sequences, FiniteSets, TLC

(* ------------------------------ bounds --------------------------------- *)
MaxDay == 2

Days == 0..MaxDay
SymbolOrder == <<"A", "B">>
Symbols == {SymbolOrder[i] : i \in 1..Len(SymbolOrder)}
Null == "null"
Prices == {"99.0000", "100.0000"}
None == <<>>
Some(x) == <<x>>
Sources == {"s1", "s2"}
SourceOrder == <<"s1", "s2">>

(* ------------------------------ frames --------------------------------- *)
EmptyFrame == [r \in {} |-> 0]

FrameOf(S) == [r \in S |-> 1]

RECURSIVE SumCounts(_, _)
SumCounts(S, f) ==
  IF S = {} THEN 0
  ELSE LET x == CHOOSE y \in S : TRUE IN f[x] + SumCounts(S \ {x}, f)

concat(f, g) ==
  [r \in DOMAIN f \cup DOMAIN g |->
      (IF r \in DOMAIN f THEN f[r] ELSE 0) + (IF r \in DOMAIN g THEN g[r] ELSE 0)]

Min(S) == CHOOSE x \in S : \A y \in S : x <= y
Max(S) == CHOOSE x \in S : \A y \in S : y <= x
MinOf(a, b) == IF a <= b THEN a ELSE b

(* ------------------------------ quotes --------------------------------- *)
QuoteKey(r) == <<r.symbol, r.date>>

\* DataFrame.update(include_nulls=True): the right value, null included
OverwriteQuote(new, old) ==
  [symbol |-> old.symbol, date |-> old.date, price |-> new.price]

\* DataFrame.update(include_nulls=False): F.coalesce([right, left]) per value column
CoalesceQuote(new, old) ==
  [symbol |-> old.symbol, date |-> old.date,
   price |-> IF new.price # Null THEN new.price ELSE old.price]

\* a merge that keeps the fetched rows only
ReplaceByFetched(left, right) == right

\* df_quotes.update(df_new, on=["symbol", "date"], how="full"): full join on
\* the key, each matched pair of rows coalesced, unmatched rows of both sides
\* kept; a row matched by n rows of the other side comes out n times
update_quotes(left, right) ==
  LET L == DOMAIN left
      R == DOMAIN right
      Pairs == {p \in L \X R : QuoteKey(p[1]) = QuoteKey(p[2])}
      LOnly == {l \in L : \A r \in R : QuoteKey(l) # QuoteKey(r)}
      ROnly == {r \in R : \A l \in L : QuoteKey(l) # QuoteKey(r)}
      mult == [p \in Pairs |-> left[p[1]] * right[p[2]]]
      out == {CoalesceQuote(p[2], p[1]) : p \in Pairs} \cup LOnly \cup ROnly
  IN [x \in out |->
        SumCounts({p \in Pairs : CoalesceQuote(p[2], p[1]) = x}, mult)
        + (IF x \in LOnly THEN left[x] ELSE 0)
        + (IF x \in ROnly THEN right[x] ELSE 0)]

(* ------------------------------ tickers -------------------------------- *)
TickerKey(r) == <<r.source_key, r.symbol>>

\* DataFrame.update(include_nulls=True): the right values, null included
OverwriteTicker(new, old) ==
  [symbol |-> old.symbol, source_key |-> old.source_key, name |-> new.name,
   isin |-> new.isin, last_updated |-> new.last_updated]

\* F.coalesce([right, left]) for name, isin and last_updated
CoalesceTicker(new, old) ==
  [symbol |-> old.symbol, source_key |-> old.source_key,
   name |-> IF new.name # Null THEN new.name ELSE old.name,
   isin |-> IF new.isin # Null THEN new.isin ELSE old.isin,
   last_updated |-> new.last_updated]

\* a merge that stamps the whole merged catalog with the time of the fetched rows
RestampCatalog(left, right) ==
  IF DOMAIN right = {} THEN left
  ELSE FrameOf(DOMAIN right \cup
          {[symbol |-> l.symbol, source_key |-> l.source_key, name |-> l.name,
            isin |-> l.isin,
            last_updated |-> Max({r.last_updated : r \in DOMAIN right})] :
             l \in {x \in DOMAIN left : \A r \in DOMAIN right : TickerKey(x) # TickerKey(r)}})

\* df_tickers_pre.update(df_tickers, on=["source_key", "symbol"], how="full")
update_tickers(left, right) ==
  LET L == DOMAIN left
      R == DOMAIN right
      Pairs == {p \in L \X R : TickerKey(p[1]) = TickerKey(p[2])}
      LOnly == {l \in L : \A r \in R : TickerKey(l) # TickerKey(r)}
      ROnly == {r \in R : \A l \in L : TickerKey(l) # TickerKey(r)}
      mult == [p \in Pairs |-> left[p[1]] * right[p[2]]]
      out == {CoalesceTicker(p[2], p[1]) : p \in Pairs} \cup LOnly \cup ROnly
  IN [x \in out |->
        SumCounts({p \in Pairs : CoalesceTicker(p[2], p[1]) = x}, mult)
        + (IF x \in LOnly THEN left[x] ELSE 0)
        + (IF x \in ROnly THEN right[x] ELSE 0)]

(* --------------------------- source config ----------------------------- *)
ALL_TICKERS == "ALL_TICKERS"
DEFAULT == {}

GroupPeriods == {None, Some(2), Some(3)}
RefreshIntervals == {1}
TickerIntervals == {None, Some(1), Some(2)}

SourceConfig ==
  [ticker_refresh_interval : TickerIntervals,
   data_refresh_interval : RefreshIntervals,
   data_group_period : GroupPeriods,
   source_strategy : {DEFAULT, {ALL_TICKERS}}]

VARIABLES
  today,        \* date.today() / datetime.now(), in whole days
  market,       \* the quote rows the providers hold (what adapters can return)
  plugins,      \* source keys of the registered plugins' sources
  cfg,          \* source key -> SourceConfig
  tickersFile,  \* tickers.parquet: [exists, rows]
  quotesFile,   \* source key -> quotes_<key>.parquet
  ledger,       \* source key -> dates marked as available
  pc,           \* position of the get_quotes caller
  args,         \* arguments of the running _get_quotes call
  pending,      \* rows of df_missing not yet iterated
  ledgerAtCall, \* ledger dates of args.src when the running call started
  new_quotes,   \* rows appended to new_quotes so far
  fetchLog,     \* source.get_quotes calls issued by the running call, each
                \* with the symbol of the df_missing row it was issued for
                \* and the kind of value the adapter returned
  lastArgs,     \* arguments of the last call that returned (None: none yet)
  lastDay,      \* value of today when that call returned
  result,       \* frame returned by the last call that returned
  raised,       \* the last call ended by an exception
  tickerCalls,  \* source keys whose get_tickers the last get_tickers called
  tickersFetched, \* rows those calls returned, stamped with source_key
  tickersResult, \* frame returned by the last get_tickers call
  fpc,          \* position of the caller of the public get_quotes
  call,         \* arguments of the last public get_quotes call
  queue,        \* sources of that call whose _get_quotes has not run yet
  frames,       \* frames the _get_quotes calls of that call returned, concatenated
  error,        \* how that call ended: "none", or the exception it raised
  warned,       \* symbols that call warned about as unknown
  rpc,          \* position of a second, concurrent caller of _get_quotes
  rcollected    \* what that caller holds in memory: its source, the rows it
                \* fetched and the merged table it has collected

vars == <<today, market, plugins, cfg, tickersFile, quotesFile, ledger, pc, args, pending,
          ledgerAtCall, new_quotes, fetchLog, lastArgs, lastDay, result, raised,
          tickerCalls, tickersFetched, tickersResult,
          fpc, call, queue, frames, error, warned, rpc, rcollected>>

quoteVars == <<pc, args, pending, ledgerAtCall, new_quotes, fetchLog, lastArgs, lastDay, result, raised>>
quoteFiles == <<quotesFile, ledger>>
tickerVars == <<tickersFile, tickerCalls, tickersFetched, tickersResult>>
facadeVars == <<fpc, call, queue, frames, error, warned>>
rivalVars == <<rpc, rcollected>>

(* --------------------------- gap detection ----------------------------- *)
\* the docstring of get_quotes: "If None, defaults to today"
StartDefaultsToToday(start_date, src) ==
  IF start_date # None THEN start_date[1] ELSE today

\* actual_start_date / actual_end_date
actual_start_date(start_date, src) ==
  IF start_date # None THEN start_date[1]
  ELSE today - cfg[src].data_refresh_interval

actual_end_date(end_date) == IF end_date # None THEN end_date[1] ELSE today

\* pl.date_range(start, end): every calendar day, both ends included
date_range(a, b) == {d \in a..b : TRUE}

\* load_quotes(source_key): the persisted table, empty when there is none
load_quotes(src) == quotesFile[src]

\* check_quotes_availability(source_key, start, end)
check_quotes_availability(src, a, b) == {d \in ledger[src] : a <= d /\ d <= b}

\* mark_quotes_as_available(source_key, start, end)
mark_quotes_as_available(led, a, b) == led \cup date_range(a, b)

\* the cross join of lines 350-357 without the anti join with the cache
MissingIgnoringCache(df_quotes, symbols, a, b) ==
  [symbol : symbols, date : date_range(a, b)]

\* DEFAULT: cross join of the date range and the symbols, anti join with the cache
MissingPairs(df_quotes, symbols, a, b) ==
  LET df_available == {r \in DOMAIN df_quotes : r.symbol \in symbols}
  IN {k \in [symbol : symbols, date : date_range(a, b)] :
        ~\E r \in df_available : r.symbol = k.symbol /\ r.date = k.date}

\* ALL_TICKERS: anti join of the date range with the available dates
MissingDates(src, a, b) ==
  [symbol : {Null}, date : date_range(a, b) \ check_quotes_availability(src, a, b)]

\* group_by_dynamic("date", every=P, group_by="symbol"): windows [k*P, (k+1)*P)
WindowOf(d, P) == d \div P

\* one group per symbol over its whole missing span, whatever the period
GroupWholeSpan(missing, P) ==
  LET grp(k) == {m \in missing : m.symbol = k.symbol}
  IN {[symbol |-> k.symbol,
       start |-> Min({m.date : m \in grp(k)}),
       end |-> Max({m.date : m \in grp(k)})] : k \in missing}

group_by_dynamic(missing, P) ==
  LET grp(k) == {m \in missing : m.symbol = k.symbol /\
                                WindowOf(m.date, P) = WindowOf(k.date, P)}
  IN {[symbol |-> k.symbol,
       start |-> Min({m.date : m \in grp(k)}),
       end |-> Max({m.date : m \in grp(k)})] : k \in missing}

\* rows of df_missing when no group period is set: start = end = row["date"]
UngroupedRows(missing) ==
  {[symbol |-> k.symbol, start |-> k.date, end |-> k.date] : k \in missing}

SymRank(s) ==
  IF s = Null THEN 0 ELSE CHOOSE i \in 1..Len(SymbolOrder) : SymbolOrder[i] = s

\* order of df_missing.collect(): by date, ties in cross-join (symbol) order
RowBefore(x, y) ==
  \/ x.start < y.start
  \/ x.start = y.start /\ SymRank(x.symbol) < SymRank(y.symbol)

RECURSIVE RowsInOrder(_)
RowsInOrder(S) ==
  IF S = {} THEN <<>>
  ELSE LET x == CHOOSE y \in S : \A z \in S \ {y} : RowBefore(y, z)
       IN <<x>> \o RowsInOrder(S \ {x})

\* order of the grouped frame: by group (symbol), then by window
GroupBefore(x, y) ==
  \/ SymRank(x.symbol) < SymRank(y.symbol)
  \/ x.symbol = y.symbol /\ x.start < y.start

RECURSIVE GroupsInOrder(_)
GroupsInOrder(S) ==
  IF S = {} THEN <<>>
  ELSE LET x == CHOOSE y \in S : \A z \in S \ {y} : GroupBefore(y, z)
       IN <<x>> \o GroupsInOrder(S \ {x})

df_missing(src, symbols, a, b) ==
  LET c == cfg[src]
      missing == IF ALL_TICKERS \notin c.source_strategy
                 THEN MissingPairs(load_quotes(src), symbols, a, b)
                 ELSE MissingDates(src, a, b)
  IN IF c.data_group_period # None
     THEN GroupsInOrder(group_by_dynamic(missing, c.data_group_period[1]))
     ELSE RowsInOrder(UngroupedRows(missing))

(* ------------------------------ adapter -------------------------------- *)
\* the provider data sets explored: one symbol on every day at one price; one
\* symbol on two days at one price or null (both with every (symbol, date)
\* answered at most once per call); every symbol on one day at any non-null
\* price, with up to MaxCopies rows per (symbol, date)
MaxCopies == 2

Markets ==
  {[symbols |-> {"A"}, days |-> Days, prices |-> {"100.0000"}, copies |-> 1],
   [symbols |-> {"A"}, days |-> {0, 1}, prices |-> {"100.0000", Null}, copies |-> 1],
   [symbols |-> Symbols, days |-> {1}, prices |-> Prices, copies |-> MaxCopies]}

ProviderRows == [symbol : market.symbols, date : market.days, price : market.prices]

\* what source.get_quotes(*symbols, start_date, end_date) may return: nothing,
\* any single row the provider holds, or every requested (symbol, day) at one price
AdapterAnswers(symbols, start, end) ==
  {{}} \cup {{r} : r \in ProviderRows}
  \cup {{r \in ProviderRows : /\ symbols # {} => r.symbol \in symbols
                              /\ r.date \in date_range(start, end)
                              /\ r.price = p} : p \in market.prices \ {Null}}

\* at most market.copies rows per (symbol, date) in a frame
WithinCopies(f) ==
  \A r \in DOMAIN f :
     SumCounts({x \in DOMAIN f : QuoteKey(x) = QuoteKey(r)}, f) <= market.copies

(* --------------------------- _get_quotes ------------------------------- *)
IsAllTickers(src) == ALL_TICKERS \in cfg[src].source_strategy

settled_until(src) == today - cfg[src].data_refresh_interval

\* a loop without the "continue" of lines 423-430
SkipNever(src, start) == FALSE

\* a test that also skips the row that starts on today - data_refresh_interval
SkipThroughSettled(src, start) == start >= settled_until(src)

\* "if start > date.today() - data_refresh_interval: continue"
beyond_refresh_interval(src, start) == start > settled_until(src)

\* the fetched span marked as it is, without the min() of lines 439-446
MarkUnclipped(led, src, start, end) == mark_quotes_as_available(led, start, end)

\* a loop that fetches without recording the span
MarkNothing(led, src, start, end) == led

\* mark_quotes_as_available(key, min(start, today - R), min(end, today - R))
mark_fetched(led, src, start, end) ==
  mark_quotes_as_available(led, MinOf(start, settled_until(src)),
                                MinOf(end, settled_until(src)))

\* the merged cache returned without the filter of lines 475-478
WholeCache(df, src, symbols, a, b) ==
  LET out(r) == [symbol |-> r.symbol, date |-> r.date, price |-> r.price,
                 source_key |-> src]
  IN [x \in {out(r) : r \in DOMAIN df} |->
        df[[symbol |-> x.symbol, date |-> x.date, price |-> x.price]]]

\* the frame _get_quotes returns: rows of the merged cache for the requested
\* symbols and window, with the source_key column added
returned_quotes(df, src, symbols, a, b) ==
  LET keep == {r \in DOMAIN df : r.symbol \in symbols /\ a <= r.date /\ r.date <= b}
      out(r) == [symbol |-> r.symbol, date |-> r.date, price |-> r.price,
                 source_key |-> src]
  IN [x \in {out(r) : r \in keep} |->
        df[[symbol |-> x.symbol, date |-> x.date, price |-> x.price]]]

\* a format argument: a ReturnFormat member, a string, or a value of another type
PL_DATAFRAME == [type |-> "ReturnFormat", value |-> "pl_dataframe"]

NoCall == [op |-> "none", tickers |-> {}, start_date |-> None, end_date |-> None,
           format |-> PL_DATAFRAME]

NoneCollected == [src |-> "", fetched |-> EmptyFrame, table |-> EmptyFrame]

NoArgs == [src |-> "", symbols |-> {}, start |-> 0, end |-> 0]

\* lines 331-408: load the cache, resolve the window, compute df_missing
GetQuotesStart(src, symbols, start_date, end_date) ==
  /\ pc = "idle"
  /\ src \in plugins
  /\ (start_date # None /\ end_date # None) => start_date[1] <= end_date[1]
  /\ LET a == actual_start_date(start_date, src)
         b == actual_end_date(end_date)
     IN /\ args' = [src |-> src, symbols |-> symbols, start |-> a, end |-> b]
        /\ pending' = df_missing(src, symbols, a, b)
  /\ ledgerAtCall' = ledger[src]
  /\ pc' = "fetch"
  /\ new_quotes' = EmptyFrame
  /\ fetchLog' = <<>>
  /\ raised' = FALSE
  /\ UNCHANGED <<today, market, plugins, cfg, quoteFiles, tickerVars, lastArgs, lastDay, result>>

\* lines 423-430: ALL_TICKERS row beyond the refresh interval: continue
SkipUnsettled ==
  /\ pc = "fetch" /\ pending # <<>>
  /\ IsAllTickers(args.src)
  /\ beyond_refresh_interval(args.src, Head(pending).start)
  /\ pending' = Tail(pending)
  /\ UNCHANGED <<today, market, plugins, cfg, facadeVars, rivalVars, quoteFiles, tickerVars, pc, args, new_quotes,
                 ledgerAtCall, fetchLog, lastArgs, lastDay, result, raised>>

\* lines 431-447: ALL_TICKERS fetch, then mark the span in the ledger
FetchAllTickers ==
  /\ pc = "fetch" /\ pending # <<>>
  /\ IsAllTickers(args.src)
  /\ ~beyond_refresh_interval(args.src, Head(pending).start)
  /\ LET row == Head(pending) IN
     \E ans \in AdapterAnswers({}, row.start, row.end) :
       /\ WithinCopies(update_quotes(load_quotes(args.src),
                                     concat(new_quotes, FrameOf(ans))))
       /\ new_quotes' = concat(new_quotes, FrameOf(ans))
       /\ fetchLog' = Append(fetchLog,
                        [symbols |-> {}, start |-> row.start, end |-> row.end,
                         symbol |-> row.symbol, answer |-> "frame"])
       /\ ledger' = [ledger EXCEPT ![args.src] =
                        mark_fetched(@, args.src, row.start, row.end)]
  /\ pending' = Tail(pending)
  /\ UNCHANGED <<today, market, plugins, cfg, facadeVars, rivalVars, quotesFile, tickerVars, pc, args,
                 ledgerAtCall, lastArgs, lastDay, result, raised>>

\* lines 448-459: DEFAULT fetch, with all the requested symbols
FetchDefault ==
  /\ pc = "fetch" /\ pending # <<>>
  /\ ~IsAllTickers(args.src)
  /\ LET row == Head(pending) IN
     \E ans \in AdapterAnswers(args.symbols, row.start, row.end) :
       /\ WithinCopies(update_quotes(load_quotes(args.src),
                                     concat(new_quotes, FrameOf(ans))))
       /\ new_quotes' = concat(new_quotes, FrameOf(ans))
       /\ fetchLog' = Append(fetchLog,
                        [symbols |-> args.symbols, start |-> row.start,
                         end |-> row.end, symbol |-> row.symbol, answer |-> "frame"])
  /\ pending' = Tail(pending)
  /\ UNCHANGED <<today, market, plugins, cfg, facadeVars, rivalVars, quoteFiles, tickerVars, pc, args,
                 ledgerAtCall, lastArgs, lastDay, result, raised>>

\* source.get_quotes raises: nothing catches it, the call ends without saving
AdapterRaises ==
  /\ pc = "fetch" /\ pending # <<>>
  /\ IsAllTickers(args.src) => ~beyond_refresh_interval(args.src, Head(pending).start)
  /\ pc' = "idle"
  /\ raised' = TRUE
  /\ pending' = <<>>
  /\ new_quotes' = EmptyFrame
  /\ fetchLog' = <<>>
  /\ lastArgs' = None
  /\ result' = EmptyFrame
  /\ ledgerAtCall' = {}
  /\ UNCHANGED <<today, market, plugins, cfg, facadeVars, rivalVars, quoteFiles, tickerVars, args, lastDay>>

\* what an adapter may return instead of a frame: a list of Quote tuples,
\* empty (as AMFISource.get_quotes on a failed download) or not
SequenceAnswers == {"empty sequence", "sequence"}

\* a value that is no frame and no sequence of tuples (None, a number)
OtherAnswers == {"other type"}

\* handle_input, the branch for data that is neither a polars nor a pandas
\* frame: pl.from_dicts(map(NamedTuple._asdict, data), ...) evaluates the
\* attribute _asdict of typing.NamedTuple, which does not exist, before it
\* looks at data: AttributeError, for the empty sequence too
handle_input_raises(answer) == answer \in SequenceAnswers \cup OtherAnswers

\* source.get_quotes returns a sequence: handle_input raises inside
\* new_quotes.append(...), before mark_quotes_as_available; nothing catches it
SequenceAnswer ==
  /\ pc = "fetch" /\ pending # <<>>
  /\ IsAllTickers(args.src) => ~beyond_refresh_interval(args.src, Head(pending).start)
  /\ LET row == Head(pending) IN
     \E answer \in SequenceAnswers :
       /\ handle_input_raises(answer)
       /\ fetchLog' = Append(fetchLog,
                        [symbols |-> IF IsAllTickers(args.src) THEN {} ELSE args.symbols,
                         start |-> row.start, end |-> row.end,
                         symbol |-> row.symbol, answer |-> answer])
  /\ pc' = "idle"
  /\ raised' = TRUE
  /\ pending' = <<>>
  /\ new_quotes' = EmptyFrame
  /\ lastArgs' = None
  /\ result' = EmptyFrame
  /\ ledgerAtCall' = {}
  /\ UNCHANGED <<today, market, plugins, cfg, facadeVars, rivalVars, quoteFiles, tickerVars, args, lastDay>>

\* a call that returns without writing the merged table
KeepOldFile(file, df, src) == file

\* a save that would merge into the table the file holds when it is written
MergeOnSave(file, df, src) == [file EXCEPT ![src] = update_quotes(file[src], df)]

\* a store that keeps one quote table for all the sources
SaveAllSources(file, df, src) == [s \in DOMAIN file |-> df]

\* save_quotes(df_quotes_collected, source_key): the file of the source is
\* replaced by the merged table
save_quotes(file, df, src) == [file EXCEPT ![src] = df]

\* lines 461-483: merge, sort, save, return the requested slice
MergeSave ==
  /\ pc = "fetch" /\ pending = <<>>
  /\ LET df_quotes_collected == update_quotes(load_quotes(args.src), new_quotes)
     IN /\ quotesFile' = save_quotes(quotesFile, df_quotes_collected, args.src)
        /\ result' = returned_quotes(df_quotes_collected, args.src, args.symbols,
                                     args.start, args.end)
  /\ pc' = "idle"
  /\ lastArgs' = Some(args)
  /\ lastDay' = today
  /\ new_quotes' = EmptyFrame
  /\ fetchLog' = <<>>
  /\ ledgerAtCall' = {}
  /\ UNCHANGED <<today, market, plugins, cfg, facadeVars, rivalVars, ledger, tickerVars, args, pending, raised>>

\* the calendar advances between calls
Tick ==
  /\ pc = "idle"
  /\ today < MaxDay
  /\ today' = today + 1
  /\ UNCHANGED <<market, plugins, cfg, quoteFiles, tickerVars, quoteVars, facadeVars, rivalVars>>


(* ----------------------------- get_tickers ----------------------------- *)
Names == {"n1", "n2"}
Isins == {"i1", Null}

\* what source.get_tickers() may return: at most one Ticker per symbol
TickerAnswers ==
  {S \in SUBSET [symbol : market.symbols, name : Names, isin : Isins] :
     \A x \in S, y \in S : x.symbol = y.symbol => x = y}

\* _get_sources(source_keys)
_get_sources(source_keys) ==
  {s \in plugins : source_keys = None \/ s \in source_keys[1]}

df_tickers_pre == IF tickersFile.exists THEN tickersFile.rows ELSE EmptyFrame

\* pre_loaded_sources: source_key -> min(last_updated) of its persisted rows
InPreLoaded(key) == \E r \in DOMAIN df_tickers_pre : r.source_key = key

pre_loaded_sources(key) ==
  Min({r.last_updated : r \in {x \in DOMAIN df_tickers_pre : x.source_key = key}})

\* a source without persisted rows counted as up to date
UpToDateWhenAbsent(key) ==
  \/ ~InPreLoaded(key)
  \/ /\ cfg[key].ticker_refresh_interval # None
     /\ today - pre_loaded_sources(key) < cfg[key].ticker_refresh_interval[1]

\* lines 222-228: the source is skipped as up to date
up_to_date(key) ==
  /\ InPreLoaded(key)
  /\ cfg[key].ticker_refresh_interval # None
  /\ today - pre_loaded_sources(key) < cfg[key].ticker_refresh_interval[1]

\* the rows of one source, with source_key and last_updated = now
stamped(key, answer) ==
  {[symbol |-> t.symbol, name |-> t.name, isin |-> t.isin, source_key |-> key,
    last_updated |-> today] : t \in answer}

TickerColumns == {"symbol", "name", "isin", "source_key", "last_updated"}

\* filter keys combined with AND instead of OR
FilterAllKeys(frame, source_keys, filters) ==
  LET bySource == IF source_keys # None /\ source_keys[1] # {}
                  THEN {r \in DOMAIN frame : r.source_key \in source_keys[1]}
                  ELSE DOMAIN frame
      used == DOMAIN filters \cap TickerColumns
      kept == {r \in bySource : \A c \in used : r[c] \in filters[c]}
  IN [r \in kept |-> frame[r]]

\* apply_filters(frame, source_keys, filters)
apply_filters(frame, source_keys, filters) ==
  LET bySource == IF source_keys # None /\ source_keys[1] # {}
                  THEN {r \in DOMAIN frame : r.source_key \in source_keys[1]}
                  ELSE DOMAIN frame
      used == DOMAIN filters \cap TickerColumns
      kept == IF used # {}
              THEN {r \in bySource : \E c \in used : r[c] \in filters[c]}
              ELSE bySource
  IN [r \in kept |-> frame[r]]

\* apply_filters before save_tickers instead of after it
SaveFiltered(merged, source_keys, filters) == apply_filters(merged, source_keys, filters)

\* save_tickers(df_tickers): the whole merged catalog
saved_tickers(merged, source_keys, filters) == merged

NoFilters == [c \in {} |-> {}]

FilterChoices ==
  {NoFilters, [symbol |-> {"A"}], [symbol |-> {"A"}, name |-> {"n2"}], [sector |-> {"x"}]}

SourceKeyChoices == {None, Some({"s1"}), Some({})}

\* lines 218-235: the selected sources that are not skipped as up to date
called_sources(source_keys) == {s \in _get_sources(source_keys) : ~up_to_date(s)}

\* lines 233-245: the rows the called sources returned, stamped
fetched_tickers(answers) == UNION {stamped(s, answers[s]) : s \in DOMAIN answers}

\* lines 247-251: df_tickers_pre.update(df_tickers, on=[source_key, symbol], how="full")
merged_tickers(answers) ==
  update_tickers(df_tickers_pre, FrameOf(fetched_tickers(answers)))

\* a sync that returns its result and leaves the catalog file for later
SyncWithoutSave(filters, source_keys, answers) ==
  /\ tickersFile' = tickersFile
  /\ tickerCalls' = DOMAIN answers
  /\ tickersFetched' = FrameOf(fetched_tickers(answers))
  /\ tickersResult' = apply_filters(merged_tickers(answers), source_keys, filters)

\* lines 186-258 for given answers of the called sources: merge, save, filter
get_tickers(filters, source_keys, answers) ==
  /\ tickersFile' = [exists |-> TRUE,
                     rows |-> saved_tickers(merged_tickers(answers), source_keys, filters)]
  /\ tickerCalls' = DOMAIN answers
  /\ tickersFetched' = FrameOf(fetched_tickers(answers))
  /\ tickersResult' = apply_filters(merged_tickers(answers), source_keys, filters)

\* Nivesh.get_tickers(filters, source_keys)
GetTickers(filters, source_keys) ==
  /\ pc = "idle"
  /\ \E answers \in [called_sources(source_keys) -> TickerAnswers] :
        get_tickers(filters, source_keys, answers)
  /\ UNCHANGED <<today, market, plugins, cfg, quoteFiles, quoteVars>>

CatalogSync ==
  \E filters \in FilterChoices, source_keys \in SourceKeyChoices :
     /\ GetTickers(filters, source_keys)
     /\ error' = "none"
     /\ UNCHANGED <<fpc, call, queue, frames, warned, rivalVars>>

SourceRank(s) == CHOOSE i \in 1..Len(SourceOrder) : SourceOrder[i] = s

\* lines 218-235 when a called source returns a value of another type:
\* handle_input raises inside all_tickers.append(...); nothing catches it, so
\* the sources after it are not called and nothing is merged or saved
GetTickersRaises(source_keys) ==
  /\ pc = "idle"
  /\ \E failing \in called_sources(source_keys), answer \in OtherAnswers :
       /\ handle_input_raises(answer)
       /\ tickerCalls' = {s \in called_sources(source_keys) :
                            SourceRank(s) <= SourceRank(failing)}
  /\ error' = "AttributeError: _asdict"
  /\ tickersFetched' = EmptyFrame
  /\ tickersResult' = EmptyFrame
  /\ UNCHANGED <<today, market, plugins, cfg, quoteFiles, quoteVars, tickersFile,
                 fpc, call, queue, frames, warned, rivalVars>>

CatalogSyncRaises == \E source_keys \in SourceKeyChoices : GetTickersRaises(source_keys)

OptDays == {None} \cup {Some(d) : d \in market.days}

Init ==
  /\ today = 1
  /\ market \in Markets
  /\ plugins = {"s1"}
  /\ cfg \in {c \in [Sources -> SourceConfig] :
                /\ c["s1"].ticker_refresh_interval = None
                /\ c["s1"].data_group_period # Some(2)
                /\ c["s2"] = [ticker_refresh_interval |-> None,
                              data_refresh_interval |-> 1,
                              data_group_period |-> None,
                              source_strategy |-> DEFAULT]}
  /\ tickersFile = [exists |-> FALSE, rows |-> EmptyFrame]
  /\ quotesFile = [s \in Sources |-> EmptyFrame]
  /\ ledger = [s \in Sources |-> {}]
  /\ ledgerAtCall = {}
  /\ pc = "idle"
  /\ args = NoArgs
  /\ pending = <<>>
  /\ new_quotes = EmptyFrame
  /\ fetchLog = <<>>
  /\ lastArgs = None
  /\ lastDay = 0
  /\ result = EmptyFrame
  /\ raised = FALSE
  /\ tickerCalls = {}
  /\ tickersFetched = EmptyFrame
  /\ tickersResult = EmptyFrame
  /\ fpc = "idle"
  /\ call = NoCall
  /\ queue = <<>>
  /\ frames = EmptyFrame
  /\ error = "none"
  /\ warned = {}
  /\ rpc = "idle"
  /\ rcollected = NoneCollected

GetQuotes ==
  \E src \in Sources, symbols \in SUBSET market.symbols \ {{}},
     start_date \in OptDays, end_date \in OptDays :
       /\ GetQuotesStart(src, symbols, start_date, end_date)
       /\ UNCHANGED <<facadeVars, rivalVars>>

Next ==
  \/ GetQuotes
  \/ SkipUnsettled
  \/ FetchAllTickers
  \/ FetchDefault
  \/ AdapterRaises
  \/ SequenceAnswer
  \/ MergeSave
  \/ Tick

Spec == Init /\ [][Next]_vars

(* catalog side: get_tickers calls over the registered sources *)
InitT ==
  /\ today = 1
  /\ \E sc \in {<<{"s1"}, Symbols>>, <<Sources, {"A"}>>} :
        /\ plugins = sc[1]
        /\ market = [symbols |-> sc[2], days |-> Days, prices |-> Prices, copies |-> 1]
        /\ cfg \in {c \in [Sources -> SourceConfig] :
                      \A s \in Sources :
                         /\ c[s].data_group_period = None
                         /\ c[s].source_strategy = DEFAULT
                         /\ s \notin sc[1] => c[s].ticker_refresh_interval = None}
  /\ tickersFile = [exists |-> FALSE, rows |-> EmptyFrame]
  /\ quotesFile = [s \in Sources |-> EmptyFrame]
  /\ ledger = [s \in Sources |-> {}]
  /\ ledgerAtCall = {}
  /\ pc = "idle"
  /\ args = NoArgs
  /\ pending = <<>>
  /\ new_quotes = EmptyFrame
  /\ fetchLog = <<>>
  /\ lastArgs = None
  /\ lastDay = 0
  /\ result = EmptyFrame
  /\ raised = FALSE
  /\ tickerCalls = {}
  /\ tickersFetched = EmptyFrame
  /\ tickersResult = EmptyFrame
  /\ fpc = "idle"
  /\ call = NoCall
  /\ queue = <<>>
  /\ frames = EmptyFrame
  /\ error = "none"
  /\ warned = {}
  /\ rpc = "idle"
  /\ rcollected = NoneCollected

NextT == CatalogSync \/ CatalogSyncRaises \/ Tick

SpecT == InitT /\ [][NextT]_vars

(* ---------------- apply_filters over any catalog and arguments ---------- *)
\* the catalog rows the filtered frames are made of
CatalogRows ==
  [symbol : Symbols, name : Names, isin : {Null}, source_key : Sources, last_updated : {1}]

\* apply_filters(df_tickers, source_keys, filters) at the end of get_tickers
ApplyFilters ==
  /\ pc = "idle" /\ call.op = "apply_filters"
  /\ tickersResult' = apply_filters(tickersFile.rows, call.source_keys, call.filters)
  /\ call' = [call EXCEPT !.op = "filtered"]
  /\ UNCHANGED <<today, market, plugins, cfg, quoteFiles, quoteVars, tickersFile,
                 tickerCalls, tickersFetched, fpc, queue, frames, error, warned, rivalVars>>

InitA ==
  /\ today = 1
  /\ market = [symbols |-> Symbols, days |-> {1}, prices |-> {"100.0000"}, copies |-> 1]
  /\ plugins = Sources
  /\ cfg = [s \in Sources |-> [ticker_refresh_interval |-> None,
                               data_refresh_interval |-> 1,
                               data_group_period |-> None,
                               source_strategy |-> DEFAULT]]
  /\ \E S \in SUBSET CatalogRows : tickersFile = [exists |-> TRUE, rows |-> FrameOf(S)]
  /\ \E filters \in FilterChoices, source_keys \in SourceKeyChoices :
        call = [op |-> "apply_filters", filters |-> filters, source_keys |-> source_keys]
  /\ quotesFile = [s \in Sources |-> EmptyFrame]
  /\ ledger = [s \in Sources |-> {}]
  /\ ledgerAtCall = {}
  /\ pc = "idle"
  /\ args = NoArgs
  /\ pending = <<>>
  /\ new_quotes = EmptyFrame
  /\ fetchLog = <<>>
  /\ lastArgs = None
  /\ lastDay = 0
  /\ result = EmptyFrame
  /\ raised = FALSE
  /\ tickerCalls = {}
  /\ tickersFetched = EmptyFrame
  /\ tickersResult = EmptyFrame
  /\ fpc = "idle"
  /\ queue = <<>>
  /\ frames = EmptyFrame
  /\ error = "none"
  /\ warned = {}
  /\ rpc = "idle"
  /\ rcollected = NoneCollected

NextA == ApplyFilters

SpecA == InitA /\ [][NextA]_vars

(* ------------------------- plugin registration ------------------------- *)
\* what register_plugin may be given: a Plugin with its sources, or another object
PluginObjects ==
  {[type |-> "Plugin", sources |-> {"s1"}],
   [type |-> "Plugin", sources |-> {"s2"}],
   [type |-> "str", sources |-> {}]}

\* a register_plugin that drops what it is given
RegisterNothing(registered, plugin) == registered

\* self.plugins.append(plugin): the sources of the plugin join those of the list
append_plugin(registered, plugin) == registered \cup plugin.sources

\* Nivesh.register_plugin(plugin)
RegisterPlugin ==
  /\ pc = "idle"
  /\ \E plugin \in PluginObjects :
       /\ call' = [op |-> "register_plugin", plugin |-> plugin]
       /\ IF plugin.type = "Plugin"
          THEN /\ plugins' = append_plugin(plugins, plugin)
               /\ error' = "none"
          ELSE /\ plugins' = plugins
               /\ error' = "TypeError: Plugin must be an instance of Plugin class"
  /\ UNCHANGED <<today, market, cfg, quoteFiles, quoteVars, tickerVars,
                 fpc, queue, frames, warned, rivalVars>>

\* Nivesh.get_sources(source_keys)
GetSources ==
  /\ pc = "idle"
  /\ \E source_keys \in SourceKeyChoices :
       call' = [op |-> "get_sources", source_keys |-> source_keys,
                returned |-> _get_sources(source_keys)]
  /\ error' = "none"
  /\ UNCHANGED <<today, market, plugins, cfg, quoteFiles, quoteVars, tickerVars,
                 fpc, queue, frames, warned, rivalVars>>

(* an object without plugins, or with the plugin of s1 found at construction *)
InitP ==
  /\ today = 1
  /\ market = [symbols |-> {"A"}, days |-> {1}, prices |-> {"100.0000"}, copies |-> 1]
  /\ plugins \in {{}, {"s1"}}
  /\ cfg = [s \in Sources |-> [ticker_refresh_interval |-> None,
                               data_refresh_interval |-> 1,
                               data_group_period |-> None,
                               source_strategy |-> DEFAULT]]
  /\ tickersFile = [exists |-> FALSE, rows |-> EmptyFrame]
  /\ quotesFile = [s \in Sources |-> EmptyFrame]
  /\ ledger = [s \in Sources |-> {}]
  /\ ledgerAtCall = {}
  /\ pc = "idle"
  /\ args = NoArgs
  /\ pending = <<>>
  /\ new_quotes = EmptyFrame
  /\ fetchLog = <<>>
  /\ lastArgs = None
  /\ lastDay = 0
  /\ result = EmptyFrame
  /\ raised = FALSE
  /\ tickerCalls = {}
  /\ tickersFetched = EmptyFrame
  /\ tickersResult = EmptyFrame
  /\ fpc = "idle"
  /\ call = NoCall
  /\ queue = <<>>
  /\ frames = EmptyFrame
  /\ error = "none"
  /\ warned = {}
  /\ rpc = "idle"
  /\ rcollected = NoneCollected

NextP ==
  \/ RegisterPlugin
  \/ GetSources
  \/ CatalogSync

SpecP == InitP /\ [][NextP]_vars

(* ------------------- a source with a short group period ----------------- *)
\* one source of either strategy whose data_group_period is two days, one
\* symbol quoted on every day
InitG ==
  /\ today = 1
  /\ market = [symbols |-> {"A"}, days |-> Days, prices |-> {"100.0000"}, copies |-> 1]
  /\ plugins = {"s1"}
  /\ \E strategy \in {DEFAULT, {ALL_TICKERS}} :
       cfg = [s \in Sources |->
                [ticker_refresh_interval |-> None,
                 data_refresh_interval |-> 1,
                 data_group_period |-> IF s = "s1" THEN Some(2) ELSE None,
                 source_strategy |-> IF s = "s1" THEN strategy ELSE DEFAULT]]
  /\ tickersFile = [exists |-> FALSE, rows |-> EmptyFrame]
  /\ quotesFile = [s \in Sources |-> EmptyFrame]
  /\ ledger = [s \in Sources |-> {}]
  /\ ledgerAtCall = {}
  /\ pc = "idle"
  /\ args = NoArgs
  /\ pending = <<>>
  /\ new_quotes = EmptyFrame
  /\ fetchLog = <<>>
  /\ lastArgs = None
  /\ lastDay = 0
  /\ result = EmptyFrame
  /\ raised = FALSE
  /\ tickerCalls = {}
  /\ tickersFetched = EmptyFrame
  /\ tickersResult = EmptyFrame
  /\ fpc = "idle"
  /\ call = NoCall
  /\ queue = <<>>
  /\ frames = EmptyFrame
  /\ error = "none"
  /\ warned = {}
  /\ rpc = "idle"
  /\ rcollected = NoneCollected

NextG ==
  \/ GetQuotes
  \/ SkipUnsettled
  \/ FetchAllTickers
  \/ FetchDefault
  \/ MergeSave
  \/ Tick

SpecG == InitG /\ [][NextG]_vars

(* ----------------------- quote syncs of two sources --------------------- *)
\* get_quotes of a registered source for all the symbols, over a window of the
\* first two days or with both dates left out
SyncWindows ==
  {<<None, None>>, <<Some(0), Some(0)>>, <<Some(1), Some(1)>>, <<Some(0), Some(1)>>}

GetQuotesWindow ==
  \E src \in Sources, w \in SyncWindows :
     /\ GetQuotesStart(src, market.symbols, w[1], w[2])
     /\ UNCHANGED <<facadeVars, rivalVars>>

\* both sources registered, each with either strategy, ungrouped; one symbol
\* quoted on the first two days; today is day 1 or day 2
InitS ==
  /\ today \in {1, 2}
  /\ market = [symbols |-> {"A"}, days |-> {0, 1}, prices |-> {"100.0000"}, copies |-> 1]
  /\ plugins = Sources
  /\ cfg \in [Sources -> [ticker_refresh_interval : {None},
                           data_refresh_interval : {1},
                           data_group_period : {None},
                           source_strategy : {DEFAULT, {ALL_TICKERS}}]]
  /\ tickersFile = [exists |-> FALSE, rows |-> EmptyFrame]
  /\ quotesFile = [s \in Sources |-> EmptyFrame]
  /\ ledger = [s \in Sources |-> {}]
  /\ ledgerAtCall = {}
  /\ pc = "idle"
  /\ args = NoArgs
  /\ pending = <<>>
  /\ new_quotes = EmptyFrame
  /\ fetchLog = <<>>
  /\ lastArgs = None
  /\ lastDay = 0
  /\ result = EmptyFrame
  /\ raised = FALSE
  /\ tickerCalls = {}
  /\ tickersFetched = EmptyFrame
  /\ tickersResult = EmptyFrame
  /\ fpc = "idle"
  /\ call = NoCall
  /\ queue = <<>>
  /\ frames = EmptyFrame
  /\ error = "none"
  /\ warned = {}
  /\ rpc = "idle"
  /\ rcollected = NoneCollected

NextS ==
  \/ GetQuotesWindow
  \/ SkipUnsettled
  \/ FetchAllTickers
  \/ FetchDefault
  \/ MergeSave

SpecS == InitS /\ [][NextS]_vars

(* ------------------------ two concurrent callers ------------------------ *)
\* A second caller of _get_quotes on the same store. Nothing in lines 322-483
\* takes a lock, so its steps interleave with the first caller's. Its request
\* is one symbol on one day of a DEFAULT source: lines 331-461 read the
\* persisted table, fetch the pair when it is missing and merge in memory.
RivalCollect ==
  /\ rpc = "idle"
  /\ \E src \in plugins, symbol \in market.symbols, d \in market.days :
       /\ ~IsAllTickers(src)
       /\ LET df_quotes == load_quotes(src)
              missing == MissingPairs(df_quotes, {symbol}, d, d)
          IN \E ans \in IF missing = {} THEN {{}} ELSE AdapterAnswers({symbol}, d, d) :
               /\ WithinCopies(update_quotes(df_quotes, FrameOf(ans)))
               /\ rcollected' = [src |-> src, fetched |-> FrameOf(ans),
                                 table |-> update_quotes(df_quotes, FrameOf(ans))]
  /\ rpc' = "collected"
  /\ UNCHANGED <<today, market, plugins, cfg, quoteFiles, tickerVars, quoteVars, facadeVars>>

\* lines 467-475: save_quotes writes the table collected earlier
RivalSave ==
  /\ rpc = "collected"
  /\ quotesFile' = save_quotes(quotesFile, rcollected.table, rcollected.src)
  /\ rpc' = "idle"
  /\ UNCHANGED <<today, market, plugins, cfg, ledger, tickerVars, quoteVars, facadeVars, rcollected>>

\* one DEFAULT source without grouping, one symbol quoted on the first two days
InitC ==
  /\ today = 1
  /\ market = [symbols |-> {"A"}, days |-> {0, 1}, prices |-> {"100.0000"}, copies |-> 1]
  /\ plugins = {"s1"}
  /\ cfg = [s \in Sources |-> [ticker_refresh_interval |-> None,
                                data_refresh_interval |-> 1,
                                data_group_period |-> None,
                                source_strategy |-> DEFAULT]]
  /\ tickersFile = [exists |-> FALSE, rows |-> EmptyFrame]
  /\ quotesFile = [s \in Sources |-> EmptyFrame]
  /\ ledger = [s \in Sources |-> {}]
  /\ ledgerAtCall = {}
  /\ pc = "idle"
  /\ args = NoArgs
  /\ pending = <<>>
  /\ new_quotes = EmptyFrame
  /\ fetchLog = <<>>
  /\ lastArgs = None
  /\ lastDay = 0
  /\ result = EmptyFrame
  /\ raised = FALSE
  /\ tickerCalls = {}
  /\ tickersFetched = EmptyFrame
  /\ tickersResult = EmptyFrame
  /\ fpc = "idle"
  /\ call = NoCall
  /\ queue = <<>>
  /\ frames = EmptyFrame
  /\ error = "none"
  /\ warned = {}
  /\ rpc = "idle"
  /\ rcollected = NoneCollected

NextC ==
  \/ GetQuotesWindow
  \/ FetchDefault
  \/ MergeSave
  \/ RivalCollect
  \/ RivalSave

SpecC == InitC /\ [][NextC]_vars

(* ------------------------- public get_quotes --------------------------- *)
\* a requested ticker is a record [symbol, source_key]; source_key is null for a
\* symbol given alone
\* a call that validates nothing
NeverInvalid(start_date, end_date) == FALSE

\* "if start_date and end_date and start_date > end_date"
invalid_range(start_date, end_date) ==
  start_date # None /\ end_date # None /\ start_date[1] > end_date[1]

\* the symbols requested without a source key
symbols_without_key(tickers) == {t.symbol : t \in {x \in tickers : x.source_key = Null}}

\* the filters _handle_tickers passes to get_tickers: {"symbol": [...]}
handle_filters(tickers) == [symbol |-> symbols_without_key(tickers)]

\* the (symbol, source_key) pairs of the rows of a catalog frame
ticker_pairs(frame) ==
  {[symbol |-> r.symbol, source_key |-> r.source_key] : r \in DOMAIN frame}

\* lines 290-305: symbols without a key that the catalog rows matched do not hold
unknown_tickers(tickers, matched) ==
  {y \in symbols_without_key(tickers) : \A m \in matched : m.symbol # y}

\* unknown symbols kept in the request, each paired with every registered source
KeepUnknown(tickers, matched) ==
  {t \in tickers : t.source_key # Null} \cup matched
  \cup [symbol : unknown_tickers(tickers, matched), source_key : plugins]

\* lines 306-313: the tickers given with a key, and the matched catalog rows
_handle_tickers(tickers, matched) ==
  {t \in tickers : t.source_key # Null} \cup matched

\* lines 583-588: the registered sources whose key is among the requested pairs
requested_sources(requested) ==
  SelectSeq(SourceOrder,
            LAMBDA s : s \in _get_sources(Some({t.source_key : t \in requested})))

\* every source asked for all the requested symbols
AllRequestedSymbols(requested, src) == {t.symbol : t \in requested}

\* lines 593-599: the symbols of the requested pairs of one source
symbols_of(requested, src) == {t.symbol : t \in {x \in requested : x.source_key = src}}

\* what the sources answer to get_tickers in the calls of the public get_quotes
FacadeTickerAnswers == {S \in TickerAnswers : \A x \in S : x.name = "n1" /\ x.isin = Null}

\* the values of the members of ReturnFormat
ReturnFormatValues == {"dict", "pl_dataframe", "pl_lazyframe", "pd_dataframe", "json", "csv"}

\* a format_output that returns the frame as it is for a format it does not know
FormatNeverRaises(format) == "none"

\* format_output(data, format): how it ends. A string goes through
\* ReturnFormat(format), which raises ValueError for a string that is no member
\* value; every member has its branch; any other value reaches the last else
format_output_error(format) ==
  IF format.type = "str" /\ format.value \notin ReturnFormatValues
  THEN "ValueError: not a valid ReturnFormat"
  ELSE IF format.type \notin {"str", "ReturnFormat"}
  THEN "ValueError: Unsupported format"
  ELSE "none"

\* Nivesh.get_quotes(*tickers, start_date, end_date, format), lines 565-588:
\* validate, resolve the tickers against the freshly synced catalog, select
\* the sources
FacadeCall(tickers, start_date, end_date, format) ==
  /\ pc = "idle" /\ fpc = "idle"
  /\ call' = [op |-> "get_quotes", tickers |-> tickers, start_date |-> start_date,
              end_date |-> end_date, format |-> format]
  /\ frames' = EmptyFrame
  /\ IF invalid_range(start_date, end_date)
     THEN /\ error' = "ValueError: Start date must be before end date"
          /\ fpc' = "idle"
          /\ queue' = <<>>
          /\ warned' = {}
          /\ UNCHANGED tickerVars
     ELSE \E answers \in [called_sources(None) -> FacadeTickerAnswers] :
            LET filters == IF tickers = {} THEN NoFilters ELSE handle_filters(tickers)
                matched == ticker_pairs(apply_filters(merged_tickers(answers), None, filters))
                df_requested_tickers ==
                  IF tickers = {} THEN matched ELSE _handle_tickers(tickers, matched)
                sources == requested_sources(df_requested_tickers)
            IN /\ get_tickers(filters, None, answers)
               /\ warned' = IF tickers = {} THEN {} ELSE unknown_tickers(tickers, matched)
               /\ IF tickers # {} /\ df_requested_tickers = {}
                  THEN /\ error' = format_output_error(format)
                       /\ fpc' = "idle"
                       /\ queue' = <<>>
                  ELSE IF sources = <<>>
                  THEN /\ error' = "ValueError: cannot concat empty list"
                       /\ fpc' = "idle"
                       /\ queue' = <<>>
                  ELSE /\ error' = "none"
                       /\ fpc' = "sources"
                       /\ queue' = [i \in 1..Len(sources) |->
                                      [src |-> sources[i],
                                       symbols |-> symbols_of(df_requested_tickers, sources[i])]]
  /\ UNCHANGED <<today, market, plugins, cfg, quoteFiles, quoteVars, rivalVars>>

\* lines 590-608: the next _get_quotes of the list comprehension starts
FacadeNextSource ==
  /\ fpc = "sources" /\ queue # <<>>
  /\ GetQuotesStart(Head(queue).src, Head(queue).symbols, call.start_date, call.end_date)
  /\ queue' = Tail(queue)
  /\ fpc' = "running"
  /\ UNCHANGED <<call, frames, error, warned, rivalVars>>

\* the _get_quotes call returned: its frame joins the list; after the last
\* source pl.concat of the list is returned
FacadeCollect ==
  /\ fpc = "running" /\ pc = "idle"
  /\ frames' = concat(frames, result)
  /\ fpc' = IF queue = <<>> THEN "idle" ELSE "sources"
  /\ error' = IF queue = <<>> THEN format_output_error(call.format) ELSE error
  /\ UNCHANGED <<today, market, plugins, cfg, quoteFiles, tickerVars, quoteVars,
                 call, queue, warned, rivalVars>>

FormatChoices ==
  {PL_DATAFRAME, [type |-> "str", value |-> "xml"], [type |-> "int", value |-> "5"]}

\* the public Nivesh.get_tickers(format=...) without filters, lines 160-258:
\* sync, save, then format_output
GetTickersPublic ==
  /\ pc = "idle" /\ fpc = "idle"
  /\ \E format \in FormatChoices :
       /\ call' = [NoCall EXCEPT !.op = "get_tickers", !.format = format]
       /\ error' = format_output_error(format)
  /\ \E answers \in [called_sources(None) -> FacadeTickerAnswers] :
       get_tickers(NoFilters, None, answers)
  /\ UNCHANGED <<today, market, plugins, cfg, quoteFiles, quoteVars,
                 fpc, queue, frames, warned, rivalVars>>

FacadeWindows == {<<None, None>>, <<Some(0), Some(1)>>, <<Some(1), Some(0)>>}

FacadeRequests ==
  {{},
   {[symbol |-> "A", source_key |-> Null]},
   {[symbol |-> "A", source_key |-> Null], [symbol |-> "B", source_key |-> Null]},
   {[symbol |-> "B", source_key |-> "s2"]},
   {[symbol |-> "A", source_key |-> Null], [symbol |-> "B", source_key |-> "s2"]}}

\* the calls made: every request and window with a supported format, and two
\* requests with each of the other formats
FacadeInputs ==
  (FacadeRequests \X FacadeWindows \X {PL_DATAFRAME})
  \cup ({{[symbol |-> "A", source_key |-> Null]},
         {[symbol |-> "A", source_key |-> Null], [symbol |-> "B", source_key |-> "s2"]}}
        \X {<<None, None>>} \X FormatChoices)

GetQuotesPublic ==
  \E in \in FacadeInputs : FacadeCall(in[1], in[2][1], in[2][2], in[3])

(* the public get_quotes over two registered DEFAULT sources *)
InitF ==
  /\ today = 1
  /\ market = [symbols |-> Symbols, days |-> {1}, prices |-> {"100.0000"}, copies |-> 1]
  /\ plugins = Sources
  /\ cfg = [s \in Sources |-> [ticker_refresh_interval |-> Some(1),
                               data_refresh_interval |-> 1,
                               data_group_period |-> Some(3),
                               source_strategy |-> DEFAULT]]
  /\ tickersFile = [exists |-> FALSE, rows |-> EmptyFrame]
  /\ quotesFile = [s \in Sources |-> EmptyFrame]
  /\ ledger = [s \in Sources |-> {}]
  /\ ledgerAtCall = {}
  /\ pc = "idle"
  /\ args = NoArgs
  /\ pending = <<>>
  /\ new_quotes = EmptyFrame
  /\ fetchLog = <<>>
  /\ lastArgs = None
  /\ lastDay = 0
  /\ result = EmptyFrame
  /\ raised = FALSE
  /\ tickerCalls = {}
  /\ tickersFetched = EmptyFrame
  /\ tickersResult = EmptyFrame
  /\ fpc = "idle"
  /\ call = NoCall
  /\ queue = <<>>
  /\ frames = EmptyFrame
  /\ error = "none"
  /\ warned = {}
  /\ rpc = "idle"
  /\ rcollected = NoneCollected

NextF ==
  \/ GetQuotesPublic
  \/ GetTickersPublic
  \/ FacadeNextSource
  \/ FetchDefault
  \/ MergeSave
  \/ FacadeCollect

SpecF == InitF /\ [][NextF]_vars


(* -------------------- public get_quotes: the window -------------------- *)
\* calls for the ticker (A, s1) with both dates, one date or none
WindowChoices ==
  {<<None, None>>, <<Some(0), None>>, <<Some(2), None>>, <<None, Some(0)>>,
   <<None, Some(1)>>, <<Some(0), Some(1)>>, <<Some(1), Some(0)>>}

GetQuotesWindowed ==
  \E w \in WindowChoices :
     FacadeCall({[symbol |-> "A", source_key |-> "s1"]}, w[1], w[2], PL_DATAFRAME)

\* one registered source of either strategy, ungrouped, one symbol quoted on
\* the first two days; today is day 1 or day 2
InitW ==
  /\ today \in {1, 2}
  /\ market = [symbols |-> {"A"}, days |-> {0, 1}, prices |-> {"100.0000"}, copies |-> 1]
  /\ plugins = {"s1"}
  /\ \E strategy \in {DEFAULT, {ALL_TICKERS}} :
       cfg = [s \in Sources |->
                [ticker_refresh_interval |-> None,
                 data_refresh_interval |-> 1,
                 data_group_period |-> None,
                 source_strategy |-> IF s = "s1" THEN strategy ELSE DEFAULT]]
  /\ tickersFile = [exists |-> FALSE, rows |-> EmptyFrame]
  /\ quotesFile = [s \in Sources |-> EmptyFrame]
  /\ ledger = [s \in Sources |-> {}]
  /\ ledgerAtCall = {}
  /\ pc = "idle"
  /\ args = NoArgs
  /\ pending = <<>>
  /\ new_quotes = EmptyFrame
  /\ fetchLog = <<>>
  /\ lastArgs = None
  /\ lastDay = 0
  /\ result = EmptyFrame
  /\ raised = FALSE
  /\ tickerCalls = {}
  /\ tickersFetched = EmptyFrame
  /\ tickersResult = EmptyFrame
  /\ fpc = "idle"
  /\ call = NoCall
  /\ queue = <<>>
  /\ frames = EmptyFrame
  /\ error = "none"
  /\ warned = {}
  /\ rpc = "idle"
  /\ rcollected = NoneCollected

NextW ==
  \/ GetQuotesWindowed
  \/ FacadeNextSource
  \/ SkipUnsettled
  \/ FetchAllTickers
  \/ FetchDefault
  \/ MergeSave
  \/ FacadeCollect

SpecW == InitW /\ [][NextW]_vars


(* --------------------- calls on an ALL_TICKERS source ------------------- *)
\* _get_quotes of the source s1 for some of the symbols over a window of the
\* first two days or with both dates left out
GetQuotesSymbols ==
  \E symbols \in SUBSET market.symbols \ {{}}, w \in SyncWindows :
     /\ GetQuotesStart("s1", symbols, w[1], w[2])
     /\ UNCHANGED <<facadeVars, rivalVars>>

\* one registered ALL_TICKERS source, with or without a group period of two
\* days; two symbols quoted on the first two days; today is day 1 or day 2
InitL ==
  /\ today \in {1, 2}
  /\ market = [symbols |-> Symbols, days |-> {0, 1}, prices |-> {"100.0000"}, copies |-> 1]
  /\ plugins = {"s1"}
  /\ \E P \in {None, Some(2)} :
       cfg = [s \in Sources |->
                [ticker_refresh_interval |-> None,
                 data_refresh_interval |-> 1,
                 data_group_period |-> IF s = "s1" THEN P ELSE None,
                 source_strategy |-> IF s = "s1" THEN {ALL_TICKERS} ELSE DEFAULT]]
  /\ tickersFile = [exists |-> FALSE, rows |-> EmptyFrame]
  /\ quotesFile = [s \in Sources |-> EmptyFrame]
  /\ ledger = [s \in Sources |-> {}]
  /\ ledgerAtCall = {}
  /\ pc = "idle"
  /\ args = NoArgs
  /\ pending = <<>>
  /\ new_quotes = EmptyFrame
  /\ fetchLog = <<>>
  /\ lastArgs = None
  /\ lastDay = 0
  /\ result = EmptyFrame
  /\ raised = FALSE
  /\ tickerCalls = {}
  /\ tickersFetched = EmptyFrame
  /\ tickersResult = EmptyFrame
  /\ fpc = "idle"
  /\ call = NoCall
  /\ queue = <<>>
  /\ frames = EmptyFrame
  /\ error = "none"
  /\ warned = {}
  /\ rpc = "idle"
  /\ rcollected = NoneCollected

NextL ==
  \/ GetQuotesSymbols
  \/ SkipUnsettled
  \/ FetchAllTickers
  \/ AdapterRaises
  \/ SequenceAnswer
  \/ MergeSave

SpecL == InitL /\ [][NextL]_vars


(* ------------------------- MFTools.get_tickers ------------------------- *)
\* filter_tickers(tickers, source_keys, filters) of mftools/tickers.py: the
\* same selection as apply_filters
filter_tickers(frame, source_keys, filters) == apply_filters(frame, source_keys, filters)

\* lines 143-147: the loaded catalog, filtered as soon as it is loaded
mf_tickers_pre(source_keys, filters) ==
  IF tickersFile.exists THEN filter_tickers(tickersFile.rows, source_keys, filters)
  ELSE EmptyFrame

\* lines 171-176: the source has filtered catalog rows younger than its interval
mf_up_to_date(key, pre) ==
  /\ \E r \in DOMAIN pre : r.source_key = key
  /\ today - Min({r.last_updated : r \in {x \in DOMAIN pre : x.source_key = key}})
       < cfg[key].ticker_refresh_interval[1]

\* lines 163-177: the sources whose get_tickers is called
mf_called_sources(source_keys, filters) ==
  {s \in _get_sources(source_keys) :
     ~mf_up_to_date(s, mf_tickers_pre(source_keys, filters))}

\* lines 206-227: the fetched rows are stamped and filtered, merged into the
\* filtered catalog, and the result is what save_tickers writes
mf_merged_tickers(source_keys, filters, answers) ==
  update_tickers(mf_tickers_pre(source_keys, filters),
                 filter_tickers(FrameOf(fetched_tickers(answers)), source_keys, filters))

\* MFTools.get_tickers(filters, source_keys) with frame answers
MFToolsGetTickers ==
  /\ pc = "idle"
  /\ \E filters \in FilterChoices, source_keys \in SourceKeyChoices :
       \E answers \in [mf_called_sources(source_keys, filters) -> FacadeTickerAnswers] :
          /\ call' = [op |-> "MFTools.get_tickers", filters |-> filters,
                      source_keys |-> source_keys]
          /\ tickersFile' = [exists |-> TRUE,
                             rows |-> mf_merged_tickers(source_keys, filters, answers)]
          /\ tickerCalls' = DOMAIN answers
          /\ tickersFetched' = FrameOf(fetched_tickers(answers))
          /\ tickersResult' = mf_merged_tickers(source_keys, filters, answers)
  /\ UNCHANGED <<today, market, plugins, cfg, quoteFiles, quoteVars,
                 fpc, queue, frames, error, warned, rivalVars>>

\* two registered sources with a ticker_refresh_interval of one or two days,
\* two symbols
InitM ==
  /\ today = 1
  /\ market = [symbols |-> Symbols, days |-> Days, prices |-> {"100.0000"}, copies |-> 1]
  /\ plugins = Sources
  /\ cfg \in [Sources -> [ticker_refresh_interval : {Some(1), Some(2)},
                           data_refresh_interval : {1},
                           data_group_period : {None},
                           source_strategy : {DEFAULT}]]
  /\ tickersFile = [exists |-> FALSE, rows |-> EmptyFrame]
  /\ quotesFile = [s \in Sources |-> EmptyFrame]
  /\ ledger = [s \in Sources |-> {}]
  /\ ledgerAtCall = {}
  /\ pc = "idle"
  /\ args = NoArgs
  /\ pending = <<>>
  /\ new_quotes = EmptyFrame
  /\ fetchLog = <<>>
  /\ lastArgs = None
  /\ lastDay = 0
  /\ result = EmptyFrame
  /\ raised = FALSE
  /\ tickerCalls = {}
  /\ tickersFetched = EmptyFrame
  /\ tickersResult = EmptyFrame
  /\ fpc = "idle"
  /\ call = NoCall
  /\ queue = <<>>
  /\ frames = EmptyFrame
  /\ error = "none"
  /\ warned = {}
  /\ rpc = "idle"
  /\ rcollected = NoneCollected

NextM == MFToolsGetTickers \/ Tick

SpecM == InitM /\ [][NextM]_vars


(* ------------------------------- claims -------------------------------- *)
Cached(src, s, d) == \E r \in DOMAIN quotesFile[src] : r.symbol = s /\ r.date = d

Fetches == {fetchLog[i] : i \in 1..Len(fetchLog)}

EndOfLoop == pc = "fetch" /\ pending = <<>>

\* the running call has the arguments of the call that returned just before it,
\* on the same day
RepeatedCall == pc = "fetch" /\ lastArgs = Some(args) /\ lastDay = today

\* C1: a get_quotes call repeated at once with the same arguments issues no
\* fetch and returns the rows the first call returned
C1_SecondCallFetchesNothing ==
  RepeatedCall =>
    /\ fetchLog = <<>>
    /\ pending = <<>> =>
         returned_quotes(update_quotes(load_quotes(args.src), new_quotes),
                         args.src, args.symbols, args.start, args.end) = result

AllPairsCached ==
  \A s \in args.symbols, d \in date_range(args.start, args.end) : Cached(args.src, s, d)

InRequest(r) ==
  r.symbol \in args.symbols /\ args.start <= r.date /\ r.date <= args.end

WithSource(r, src) ==
  [symbol |-> r.symbol, date |-> r.date, price |-> r.price, source_key |-> src]

\* C2: DEFAULT source, every requested (symbol, day) cached: no row of
\* df_missing, no fetch, and the call returns exactly the cached rows of those
\* pairs
C2_NoGapNoFetch ==
  [][(pc = "fetch" /\ ~IsAllTickers(args.src) /\ AllPairsCached) =>
       /\ pending = <<>>
       /\ fetchLog = <<>>
       /\ pc' = "idle" =>
            LET old == quotesFile[args.src] IN
            /\ \A r \in DOMAIN old :
                 InRequest(r) =>
                   /\ WithSource(r, args.src) \in DOMAIN result'
                   /\ result'[WithSource(r, args.src)] = old[r]
            /\ \A x \in DOMAIN result' :
                 \E r \in DOMAIN old : InRequest(r) /\ x = WithSource(r, args.src)
     ]_vars

C2_Witness ==
  /\ pc = "fetch" /\ ~IsAllTickers(args.src)
  /\ args.start < args.end
  /\ AllPairsCached
  /\ pending = <<>>

\* C3: DEFAULT source with data_group_period: every fetched range holds only
\* days missing from the cache for the symbol of its batch
C3_FetchedRangesAllMissing ==
  (pc = "fetch" /\ ~IsAllTickers(args.src) /\ cfg[args.src].data_group_period # None) =>
    \A f \in Fetches :
      \A d \in date_range(f.start, f.end) : ~Cached(args.src, f.symbol, d)

QuoteKeys(f) == {QuoteKey(r) : r \in DOMAIN f}

MergeStep == pc = "fetch" /\ pending = <<>> /\ pc' = "idle"

\* C4 as stated: for a key in the cache and in the fetched rows the fetched row
\* wins entirely, a null price included
C4_FetchedRowWinsEntirely ==
  [][MergeStep =>
       LET old == quotesFile[args.src]
           res == quotesFile'[args.src]
       IN \A x \in DOMAIN res :
            (QuoteKey(x) \in QuoteKeys(old) /\ QuoteKey(x) \in QuoteKeys(new_quotes)) =>
              \E f \in DOMAIN new_quotes : QuoteKey(f) = QuoteKey(x) /\ x.price = f.price
     ]_vars

\* C4 amended: for a cached row and a fetched row of the same key the result
\* holds the row with the fetched price when it is not null and the cached
\* price when it is; rows of keys only in the cache are kept with their counts;
\* rows of keys only in the fetched rows are appended with their counts
C4_QuoteUpsert ==
  [][MergeStep =>
       LET old == quotesFile[args.src]
           res == quotesFile'[args.src]
           both(l, f) == [symbol |-> l.symbol, date |-> l.date,
                          price |-> IF f.price # Null THEN f.price ELSE l.price]
       IN /\ \A l \in DOMAIN old, f \in DOMAIN new_quotes :
               QuoteKey(l) = QuoteKey(f) => both(l, f) \in DOMAIN res
          /\ \A l \in DOMAIN old :
               QuoteKey(l) \notin QuoteKeys(new_quotes) => (l \in DOMAIN res /\ res[l] = old[l])
          /\ \A f \in DOMAIN new_quotes :
               QuoteKey(f) \notin QuoteKeys(old) => (f \in DOMAIN res /\ res[f] = new_quotes[f])
          /\ \A x \in DOMAIN res :
               \/ x \in DOMAIN old /\ QuoteKey(x) \notin QuoteKeys(new_quotes)
               \/ x \in DOMAIN new_quotes /\ QuoteKey(x) \notin QuoteKeys(old)
               \/ \E l \in DOMAIN old, f \in DOMAIN new_quotes :
                    QuoteKey(l) = QuoteKey(f) /\ x = both(l, f)
     ]_vars

\* all fetches done; the fetched rows overwrite one cached price, leave another
\* cached price under a null, and the cache holds a key that was not fetched
C4_Witness ==
  /\ EndOfLoop /\ fetchLog # <<>>
  /\ \E l \in DOMAIN quotesFile[args.src], f \in DOMAIN new_quotes :
       QuoteKey(l) = QuoteKey(f) /\ f.price = Null /\ l.price # Null
  /\ \E l \in DOMAIN quotesFile[args.src] : QuoteKey(l) \notin QuoteKeys(new_quotes)

TickerKeys(f) == {TickerKey(r) : r \in DOMAIN f}

\* a step of get_tickers (the other step of the catalog side moves the calendar)
TickersStep == pc = "idle" /\ pc' = "idle" /\ today' = today

\* C5 as stated: a catalog row whose key the source returns is overwritten with
\* the fetched name and isin (a null isin included) and the new last_updated
C5_FetchedTickerWinsEntirely ==
  [][TickersStep =>
       \A x \in DOMAIN tickersFile'.rows :
         (TickerKey(x) \in TickerKeys(df_tickers_pre) /\
          TickerKey(x) \in TickerKeys(tickersFetched')) =>
            \E f \in DOMAIN tickersFetched' :
               /\ TickerKey(f) = TickerKey(x)
               /\ x.name = f.name /\ x.isin = f.isin /\ x.last_updated = today
     ]_vars

\* C5 amended: a catalog row whose key the source returns gets the fetched name
\* and isin where they are not null, keeps the cached value where the fetched
\* one is null, and gets the new last_updated; rows whose key is not returned
\* are unchanged; fetched rows with a new key are appended
C5_TickerUpsert ==
  [][TickersStep =>
       LET old == df_tickers_pre
           new == tickersFetched'
           res == tickersFile'.rows
           both(l, f) == [symbol |-> l.symbol, source_key |-> l.source_key,
                          name |-> IF f.name # Null THEN f.name ELSE l.name,
                          isin |-> IF f.isin # Null THEN f.isin ELSE l.isin,
                          last_updated |-> today]
       IN /\ \A l \in DOMAIN old, f \in DOMAIN new :
               TickerKey(l) = TickerKey(f) => both(l, f) \in DOMAIN res
          /\ \A l \in DOMAIN old :
               TickerKey(l) \notin TickerKeys(new) => (l \in DOMAIN res /\ res[l] = old[l])
          /\ \A f \in DOMAIN new :
               TickerKey(f) \notin TickerKeys(old) => (f \in DOMAIN res /\ res[f] = new[f])
          /\ \A x \in DOMAIN res :
               \/ x \in DOMAIN old /\ TickerKey(x) \notin TickerKeys(new)
               \/ x \in DOMAIN new /\ TickerKey(x) \notin TickerKeys(old)
               \/ \E l \in DOMAIN old, f \in DOMAIN new :
                    TickerKey(l) = TickerKey(f) /\ x = both(l, f)
     ]_vars

\* the last get_tickers fetched a row with a null isin for a key whose catalog
\* row keeps its isin and has the fetched name and stamp, beside a row whose key
\* was not fetched
C5_Witness ==
  \E x \in DOMAIN tickersFile.rows, f \in DOMAIN tickersFetched :
     /\ TickerKey(x) = TickerKey(f)
     /\ f.isin = Null /\ x.isin # Null
     /\ x.name = f.name
     /\ x.last_updated = f.last_updated
     /\ \E y \in DOMAIN tickersFile.rows : TickerKey(y) \notin TickerKeys(tickersFetched)

RowsOf(f, key) == {r \in DOMAIN f : r.source_key = key}

\* C6: a source without ticker_refresh_interval that has a catalog row is not
\* fetched again, and its rows stay as they are
C6_NoIntervalNeverRefetched ==
  [][TickersStep =>
       \A s \in Sources :
         (cfg[s].ticker_refresh_interval = None /\ InPreLoaded(s)) =>
           /\ s \notin tickerCalls'
           /\ RowsOf(tickersFile'.rows, s) = RowsOf(tickersFile.rows, s)
     ]_vars

\* C7: after a call that fetched source s, a call made less than the refresh
\* interval later does not fetch s and leaves its rows as they are
C7_FreshSourceNotRefetched ==
  [][TickersStep =>
       \A s \in Sources :
         (/\ cfg[s].ticker_refresh_interval # None
          /\ s \in tickerCalls
          /\ \E f \in DOMAIN tickersFetched :
               /\ f.source_key = s
               /\ today - f.last_updated < cfg[s].ticker_refresh_interval[1]) =>
           /\ s \notin tickerCalls'
           /\ RowsOf(tickersFile'.rows, s) = RowsOf(tickersFile.rows, s)
     ]_vars

\* C8: the persisted catalog never loses a (source_key, symbol) key, and every
\* fetched row is persisted whatever the filters and source_keys of the call
C8_CatalogKeysNeverLost ==
  [][/\ TickerKeys(df_tickers_pre) \subseteq TickerKeys(tickersFile'.rows)
     /\ TickerKeys(tickersFetched') \subseteq TickerKeys(tickersFile'.rows)
    ]_vars

\* the filters kept a fetched row and an older row out of the returned frame
C8_Witness ==
  /\ tickerCalls # {}
  /\ \E f \in DOMAIN tickersFetched : f \notin DOMAIN tickersResult
  /\ \E r \in DOMAIN tickersFile.rows :
       r \notin DOMAIN tickersFetched /\ r \notin DOMAIN tickersResult
  /\ tickersResult # EmptyFrame

\* the running call asks an ALL_TICKERS source with a one-day refresh interval
\* for [today-2, today], and its Availability Ledger was empty at the call
C9_Case ==
  /\ pc = "fetch" /\ IsAllTickers(args.src)
  /\ cfg[args.src].data_refresh_interval = 1
  /\ args.start = today - 2 /\ args.end = today
  /\ ledgerAtCall = {}

C10_LedgerClipped ==
  /\ \A s \in Sources : \A d \in ledger[s] : d <= settled_until(s)
  /\ (pc = "fetch" /\ IsAllTickers(args.src)) =>
       \A f \in Fetches :
         \A d \in date_range(f.start, f.end) :
           d <= settled_until(args.src) => d \in ledger[args.src]

\* a fetch whose end lies in the non-settled window has been recorded
C10_Witness ==
  /\ pc = "fetch"
  /\ \E f \in Fetches : f.end > settled_until(args.src) /\ f.start \in ledger[args.src]

\* C11: a row of an ALL_TICKERS source that starts in the non-settled window is
\* not fetched and leaves nothing in the ledger; a call that went through all
\* its rows has fetched every day of its window that is no later than
\* today - data_refresh_interval and was not in the ledger when it started
C11_UnsettledRetried ==
  (pc = "fetch" /\ IsAllTickers(args.src)) =>
    /\ \A f \in Fetches : f.start <= settled_until(args.src)
    /\ \A d \in ledger[args.src] : d <= settled_until(args.src)
    /\ pending = <<>> =>
         \A d \in date_range(args.start, args.end) :
           (d <= settled_until(args.src) /\ d \notin ledgerAtCall) =>
             \E f \in Fetches : f.start <= d /\ d <= f.end

\* the last call of an ungrouped source, on an earlier day, skipped a day of its
\* window as not settled; the running call has fetched that day, now settled
C11_Witness ==
  /\ pc = "fetch" /\ IsAllTickers(args.src)
  /\ cfg[args.src].data_group_period = None
  /\ lastArgs # None /\ lastDay < today
  /\ \E d \in Days :
       /\ lastArgs[1].src = args.src
       /\ lastArgs[1].start <= d /\ d <= lastArgs[1].end
       /\ d > lastDay - cfg[args.src].data_refresh_interval
       /\ d <= settled_until(args.src)
       /\ \E f \in Fetches : f.start <= d /\ d <= f.end

\* a step that ends the running call
CallEnds == pc = "fetch" /\ pc' = "idle"

\* C13: a call never ends by an exception raised while a batch is fetched: it
\* ends with the rows its other batches returned merged into the persisted
\* table
C13_AdapterFailureIsolated ==
  [][CallEnds =>
       /\ ~raised'
       /\ \A r \in DOMAIN new_quotes : QuoteKey(r) \in QuoteKeys(quotesFile'[args.src])
    ]_vars

\* a step in which the adapter answers the head batch with the empty sequence
EmptySequenceStep ==
  /\ pc = "fetch"
  /\ Len(fetchLog') = Len(fetchLog) + 1
  /\ fetchLog'[Len(fetchLog')].answer = "empty sequence"

\* C14: an empty sequence returned for a batch is no new data: no error, no row
\* added to or removed from the fetched rows and the cache, and the call goes on
\* with its next batch
C14_EmptySequenceIsNoData ==
  [][EmptySequenceStep =>
       /\ ~raised'
       /\ pc' = "fetch"
       /\ pending' = Tail(pending)
       /\ new_quotes' = new_quotes
       /\ quotesFile' = quotesFile
    ]_vars

\* the rows of frame f whose symbol and date are those of the running request
Requested(f) == {r \in DOMAIN f : InRequest(r)}

\* C17: the frame a call returns holds exactly the rows of the merged,
\* persisted table whose symbol is requested and whose date lies in
\* [start, end], each as often as the table holds it and with the source_key
C17_ResultSelection ==
  [][MergeStep =>
       LET merged == quotesFile'[args.src] IN
       /\ \A r \in Requested(merged) :
            /\ WithSource(r, args.src) \in DOMAIN result'
            /\ result'[WithSource(r, args.src)] = merged[r]
       /\ \A x \in DOMAIN result' :
            \E r \in Requested(merged) : x = WithSource(r, args.src)
    ]_vars

\* the fetched rows hold a row outside the request (another symbol or another
\* day) beside a requested one, and the call is about to merge and return
C17_Witness ==
  /\ EndOfLoop /\ fetchLog # <<>>
  /\ \E f \in DOMAIN new_quotes : ~InRequest(f)
  /\ \E f \in DOMAIN new_quotes : InRequest(f)

\* C19 as stated: when a call returns, every row fetched during the call is a
\* row of the persisted table of its source, a row with a null price included
C19_EveryFetchedRowPersisted ==
  [][MergeStep =>
       \A f \in DOMAIN new_quotes : f \in DOMAIN quotesFile'[args.src]]_vars

\* C19 amended: when a call returns, the persisted table of its source holds every key
\* it held before and every key fetched, holds every fetched row with a price
\* as it was fetched, and holds the rows returned; the tables of the other
\* sources are as they were
C19_WriteThrough ==
  [][MergeStep =>
       LET saved == quotesFile'[args.src] IN
       /\ QuoteKeys(quotesFile[args.src]) \cup QuoteKeys(new_quotes) = QuoteKeys(saved)
       /\ \A f \in DOMAIN new_quotes : f.price # Null => f \in DOMAIN saved
       /\ \A x \in DOMAIN result' :
            [symbol |-> x.symbol, date |-> x.date, price |-> x.price] \in DOMAIN saved
       /\ \A s \in Sources \ {args.src} : quotesFile'[s] = quotesFile[s]
    ]_vars

\* the fetched rows hold a row that was not requested and whose key is not in
\* the persisted table yet, and the call is about to merge and return
C19_Witness ==
  /\ EndOfLoop /\ fetchLog # <<>>
  /\ \E f \in DOMAIN new_quotes :
       /\ ~InRequest(f)
       /\ f.price # Null
       /\ QuoteKey(f) \notin QuoteKeys(quotesFile[args.src])

\* C20: the persisted quote table of every source holds at most one row per
\* (symbol, date)
C20_OneRowPerKey ==
  \A s \in Sources :
    \A r \in DOMAIN quotesFile[s] :
      /\ quotesFile[s][r] = 1
      /\ \A x \in DOMAIN quotesFile[s] : QuoteKey(x) = QuoteKey(r) => x = r

SupportedFormat(format) ==
  \/ format.type = "ReturnFormat"
  \/ format.type = "str" /\ format.value \in ReturnFormatValues

\* a step that enters the public get_quotes; call' holds its arguments
FacadeStep == fpc = "idle" /\ pc = "idle" /\ call'.op = "get_quotes"

\* the arguments of the call name a start date later than the end date
ReversedWindow(c) ==
  c.start_date # None /\ c.end_date # None /\ c.start_date[1] > c.end_date[1]

\* C12: get_quotes with start_date > end_date ends with a ValueError before any
\* source's get_tickers or get_quotes is called and before the catalog, a quote
\* table or the ledger is written
C12_InvalidRangeFailsFast ==
  [][(FacadeStep /\ ReversedWindow(call')) =>
       /\ error' = "ValueError: Start date must be before end date"
       /\ fpc' = "idle" /\ pc' = "idle"
       /\ queue' = <<>>
       /\ UNCHANGED <<tickersFile, tickerCalls, tickersFetched, quotesFile, ledger,
                      fetchLog, new_quotes>>
    ]_vars

\* a call with start_date > end_date has ended with the ValueError while no
\* catalog has been persisted yet
C12_Witness ==
  /\ ReversedWindow(call)
  /\ error = "ValueError: Start date must be before end date"
  /\ ~tickersFile.exists
  /\ fpc = "idle"

\* the symbols of the call's tickers given without a source key that no row of
\* the catalog holds
UnknownIn(c, catalog) ==
  {t.symbol : t \in {x \in c.tickers :
                       /\ x.source_key = Null
                       /\ \A r \in DOMAIN catalog : r.symbol # x.symbol}}

\* the (symbol, source_key) pairs the call's tickers resolve to in the catalog
ServedBy(c, catalog) ==
  {t \in c.tickers : t.source_key # Null}
  \cup {[symbol |-> r.symbol, source_key |-> r.source_key] :
          r \in {x \in DOMAIN catalog :
                   \E t \in c.tickers : t.source_key = Null /\ t.symbol = x.symbol}}

QueueEntries == {queue[i] : i \in DOMAIN queue}

\* C15: a ticker without a source key whose symbol is in no row of the freshly
\* synced catalog is warned about and dropped: the call raises nothing, no
\* _get_quotes is queued or fetches for that symbol, no returned row holds it,
\* the other tickers are queued for their sources; when every ticker is
\* unknown the call returns an empty table and starts no _get_quotes
C15_UnknownTickerDropped ==
  /\ [][(FacadeStep /\ ~ReversedWindow(call') /\ call'.tickers # {}) =>
          LET unknown == UnknownIn(call', tickersFile'.rows)
              served == ServedBy(call', tickersFile'.rows)
              entries == {queue'[i] : i \in DOMAIN queue'}
          IN /\ warned' = unknown
             /\ (unknown # {} /\ SupportedFormat(call'.format)) => error' = "none"
             /\ \A e \in entries : e.symbols \cap unknown = {}
             /\ \A t \in served :
                  \E e \in entries : e.src = t.source_key /\ t.symbol \in e.symbols
             /\ served = {} =>
                  /\ SupportedFormat(call'.format) => error' = "none"
                  /\ fpc' = "idle" /\ pc' = "idle"
                  /\ queue' = <<>> /\ frames' = EmptyFrame
                  /\ UNCHANGED <<quotesFile, ledger, fetchLog>>
       ]_vars
  /\ [](/\ \A e \in QueueEntries : e.symbols \cap warned = {}
        /\ fpc # "idle" =>
             /\ \A f \in Fetches : f.symbols \cap warned = {}
             /\ \A r \in DOMAIN frames : r.symbol \notin warned)

\* a call warned about an unknown symbol and has returned rows of another
\* requested ticker
C15_Witness ==
  /\ fpc = "idle" /\ error = "none"
  /\ warned # {}
  /\ \E t \in call.tickers : t.source_key = Null /\ t.symbol \in warned
  /\ \E r \in DOMAIN frames : r.symbol \notin warned

\* C16: get_quotes with zero tickers raises nothing and queues a _get_quotes
\* for every source with at least one catalog row, with all the catalog
\* symbols of that source
C16_ZeroTickersMeansAll ==
  [][(FacadeStep /\ ~ReversedWindow(call') /\ call'.tickers = {}
        /\ SupportedFormat(call'.format)) =>
       LET catalog == DOMAIN tickersFile'.rows
           entries == {queue'[i] : i \in DOMAIN queue'}
       IN /\ error' = "none"
          /\ warned' = {}
          /\ {e.src : e \in entries} = {r.source_key : r \in catalog}
          /\ \A e \in entries :
               e.symbols = {r.symbol : r \in {x \in catalog : x.source_key = e.src}}
    ]_vars

\* the running call is for a source with a data_group_period
GroupedCall == pc = "fetch" /\ cfg[args.src].data_group_period # None

\* C21: for a source whose data_group_period is P, every fetch a call issues,
\* and every batch it still has to go through, has end - start < P
C21_BatchSpanBound ==
  GroupedCall =>
    LET P == cfg[args.src].data_group_period[1] IN
    /\ \A f \in Fetches : f.start <= f.end /\ f.end - f.start < P
    /\ \A i \in DOMAIN pending :
         pending[i].start <= pending[i].end /\ pending[i].end - pending[i].start < P

\* a call over a window longer than the period has fetched two batches for the
\* same symbol, one of them of P days
C21_Witness ==
  /\ GroupedCall
  /\ args.end - args.start >= cfg[args.src].data_group_period[1]
  /\ \E f \in Fetches, g \in Fetches :
       /\ f.symbol = g.symbol
       /\ f.end < g.start
       /\ f.end - f.start = cfg[args.src].data_group_period[1] - 1

ValueErrors ==
  {"ValueError: not a valid ReturnFormat", "ValueError: Unsupported format",
   "ValueError: Start date must be before end date",
   "ValueError: cannot concat empty list"}

\* C22: a public get_tickers or get_quotes call asked for a format that is no
\* ReturnFormat member and no value of one has ended with a ValueError
C22_UnsupportedFormatRaises ==
  (fpc = "idle" /\ pc = "idle" /\ call.op # "none" /\ ~SupportedFormat(call.format)) =>
     error \in ValueErrors

\* a get_quotes call asked for the format "xml" has fetched and collected rows
\* and has ended with the ValueError of ReturnFormat("xml")
C22_Witness ==
  /\ fpc = "idle" /\ pc = "idle"
  /\ call.op = "get_quotes"
  /\ call.format = [type |-> "str", value |-> "xml"]
  /\ frames # EmptyFrame
  /\ error = "ValueError: not a valid ReturnFormat"

\* C23: a get_tickers call ends without an exception whatever the sources
\* return, and the catalog rows persisted before it are still persisted
C23_BadAnswerTolerated ==
  [][TickersStep =>
       /\ error' = "none"
       /\ \A r \in DOMAIN df_tickers_pre :
            TickerKey(r) \in TickerKeys(tickersFile'.rows)
    ]_vars

\* the source_key restriction of a get_tickers call lets the row through
PassesSourceKeys(r, source_keys) ==
  source_keys = None \/ source_keys[1] = {} \/ r.source_key \in source_keys[1]

\* some filter key names a catalog column and holds the row's value for it
MatchesSomeFilter(r, filters) ==
  \E c \in DOMAIN filters : c \in TickerColumns /\ r[c] \in filters[c]

\* C24 as stated: a catalog row is returned if and only if it passes the
\* source_key restriction and either there is no filter or some filter key
\* that names a catalog column holds the row's value
C24_FilterAsStated ==
  call.op = "filtered" =>
    DOMAIN tickersResult =
      {r \in DOMAIN tickersFile.rows :
         /\ PassesSourceKeys(r, call.source_keys)
         /\ (call.filters = NoFilters \/ MatchesSomeFilter(r, call.filters))}

\* C24 amended: filter keys that name no catalog column are ignored, and when
\* no key of the filters names a catalog column no filter is applied
C24_FilterResult ==
  call.op = "filtered" =>
    /\ DOMAIN tickersResult =
         {r \in DOMAIN tickersFile.rows :
            /\ PassesSourceKeys(r, call.source_keys)
            /\ \/ DOMAIN call.filters \cap TickerColumns = {}
               \/ MatchesSomeFilter(r, call.filters)}
    /\ \A r \in DOMAIN tickersResult : tickersResult[r] = tickersFile.rows[r]

\* a call with source keys, a symbol and a name filter has returned a row that
\* matches only the symbol and a row that matches only the name, and has left
\* out a row of another source and a row that matches neither filter
C24_Witness ==
  /\ call.op = "filtered"
  /\ call.source_keys = Some({"s1"})
  /\ \E r \in DOMAIN tickersResult : r.symbol = "A" /\ r.name # "n2"
  /\ \E r \in DOMAIN tickersResult : r.symbol # "A" /\ r.name = "n2"
  /\ \E r \in DOMAIN tickersFile.rows : r.source_key = "s2" /\ r.symbol = "A"
  /\ \E r \in DOMAIN tickersFile.rows :
       r.source_key = "s1" /\ r.symbol # "A" /\ r.name # "n2"

\* a step of register_plugin; call' holds the object given
RegisterStep == pc = "idle" /\ call'.op = "register_plugin" /\ call' # call

\* C25: register_plugin of a Plugin adds its sources to those of the plugin
\* list and raises nothing; of another object it raises TypeError and leaves
\* the list as it was. No step removes a registered source; get_sources
\* returns the registered sources the source keys select, and get_tickers
\* calls only registered sources
C25_RegisterPlugin ==
  /\ [][/\ RegisterStep =>
             IF call'.plugin.type = "Plugin"
             THEN plugins' = plugins \cup call'.plugin.sources /\ error' = "none"
             ELSE plugins' = plugins
                  /\ error' = "TypeError: Plugin must be an instance of Plugin class"
        /\ plugins \subseteq plugins'
        /\ call'.op # "register_plugin" => plugins' = plugins
       ]_vars
  /\ [](/\ call.op = "get_sources" =>
             call.returned = {s \in plugins : call.source_keys = None
                                              \/ s \in call.source_keys[1]}
        /\ tickerCalls \subseteq plugins)

\* the plugin of s2 was registered on an object that had only s1: get_sources
\* returns both sources and the last get_tickers has called both
C25_Witness ==
  /\ call.op = "get_sources" /\ call.source_keys = None
  /\ call.returned = Sources
  /\ tickerCalls = Sources
  /\ \E r \in DOMAIN tickersFile.rows : r.source_key = "s2"

MissingDaysOf(s) ==
  {k.date : k \in {m \in MissingPairs(load_quotes(args.src), args.symbols,
                                       args.start, args.end) : m.symbol = s}}

\* the fetches of the running call issued for the rows of symbol s
FetchesFor(s) == {i \in 1..Len(fetchLog) : fetchLog[i].symbol = s}

UngroupedDefaultCall ==
  /\ EndOfLoop
  /\ ~IsAllTickers(args.src)
  /\ cfg[args.src].data_group_period = None

\* C28: DEFAULT source without data_group_period: when the fetch loop ends,
\* every requested symbol with a missing day was fetched exactly once, from
\* its first missing day to its last, and a symbol without one never.
C28_OneFetchPerSymbolSpan ==
  UngroupedDefaultCall =>
    \A s \in args.symbols :
       IF MissingDaysOf(s) = {} THEN FetchesFor(s) = {}
       ELSE /\ Cardinality(FetchesFor(s)) = 1
            /\ \A i \in FetchesFor(s) :
                 /\ fetchLog[i].start = Min(MissingDaysOf(s))
                 /\ fetchLog[i].end = Max(MissingDaysOf(s))

(* ------------------------------- C29 ----------------------------------- *)
\* C29: DEFAULT source: every symbol passed to the adapter for a batch lacks
\* at least one day of the batch's range in the cache; a requested symbol
\* cached on the whole range is not passed.
C29_FetchedSymbolsAllMissing ==
  (pc = "fetch" /\ ~IsAllTickers(args.src)) =>
    \A i \in 1..Len(fetchLog) :
       \A s \in fetchLog[i].symbols :
          \E d \in date_range(fetchLog[i].start, fetchLog[i].end) :
             ~Cached(args.src, s, d)

(* ------------------------------- C30 ----------------------------------- *)
\* the running call asks for one day, for which the cache of its source holds
\* no row and the ledger no mark
SingleDayUncached ==
  /\ args.start = args.end
  /\ \A r \in DOMAIN quotesFile[args.src] : r.date # args.start
  /\ args.start \notin ledgerAtCall

\* C30: a single-day request for a day of which nothing is cached ends its
\* fetch loop with exactly one fetch, for that day, whatever the symbols, the
\* strategy and the group period.
C30_SingleDayOneFetch ==
  (EndOfLoop /\ SingleDayUncached) =>
    /\ Len(fetchLog) = 1
    /\ fetchLog[1].start = args.start
    /\ fetchLog[1].end = args.start

(* ------------------------------- C31 ----------------------------------- *)
\* the window of the claim for the source of the running _get_quotes: each
\* date left out of the public call is defaulted on its own
WindowStart(c, src) ==
  IF c.start_date = None THEN today - cfg[src].data_refresh_interval
  ELSE c.start_date[1]

WindowEnd(c) == IF c.end_date = None THEN today ELSE c.end_date[1]

OneBoundGiven(c) == (c.start_date = None) # (c.end_date = None)

InsideSettledWindow ==
  /\ pc = "fetch" /\ IsAllTickers(args.src)
  /\ lastArgs # None
  /\ lastArgs[1].src = args.src
  /\ lastArgs[1].start <= args.start /\ args.start <= args.end
  /\ args.end <= lastArgs[1].end
  /\ lastArgs[1].end <= lastDay - cfg[args.src].data_refresh_interval

\* C32: every fetch to an ALL_TICKERS source is issued without symbols; the
\* keys of all the rows it returned, of any symbol, are in the persisted table
\* when the call returns; and a call whose window lies inside the settled
\* window of the call before it, for any symbols, issues no fetch and returns
\* the cached rows of its symbols.
C32_AllTickersReuse ==
  /\ []((pc = "fetch" /\ IsAllTickers(args.src)) =>
          \A f \in Fetches : f.symbols = {})
  /\ [][(MergeStep /\ IsAllTickers(args.src)) =>
          QuoteKeys(new_quotes) \subseteq QuoteKeys(quotesFile'[args.src])]_vars
  /\ [](InsideSettledWindow => pending = <<>> /\ fetchLog = <<>>)
  /\ [][(InsideSettledWindow /\ pc' = "idle") =>
          /\ quotesFile' = quotesFile
          /\ \A r \in Requested(quotesFile[args.src]) :
               WithSource(r, args.src) \in DOMAIN result'
          /\ \A x \in DOMAIN result' :
               \E r \in Requested(quotesFile[args.src]) : x = WithSource(r, args.src)]_vars

\* a call for A fetched both days, the adapter answered with the rows of A and
\* B, and the call for B over one of those days that follows is about to
\* return B's cached row without a fetch
C32_Witness ==
  /\ InsideSettledWindow
  /\ lastArgs[1].symbols = {"A"} /\ args.symbols = {"B"}
  /\ lastArgs[1].start < lastArgs[1].end
  /\ Requested(quotesFile[args.src]) # {}
  /\ pending = <<>> /\ fetchLog = <<>>

(* ------------------------------- C33 ----------------------------------- *)
\* a step of the public get_quotes in which an adapter's get_quotes is called
FacadeFetchStep == fpc = "running" /\ Len(fetchLog') > Len(fetchLog)

\* C33: in a get_quotes call with tickers the catalog sync, its save included,
\* is over before the first fetch and nothing touches the catalog afterwards;
\* the sources are taken one at a time, the next one only when the one before
\* has merged, saved and returned, and while one source is processed the
\* persisted table of every other source stays as it is.
C33_Ordering ==
  /\ [][(fpc = "idle" /\ fpc' = "sources") =>
          /\ call'.tickers # {} => tickersFile'.exists
          /\ pc' = "idle" /\ fetchLog' = <<>>]_vars
  /\ [][fpc # "idle" => UNCHANGED tickerVars]_vars
  /\ [][FacadeFetchStep =>
          /\ pc = "fetch"
          /\ call.tickers # {} => tickersFile.exists
          /\ \A i \in DOMAIN queue : queue[i].src # args.src]_vars
  /\ [][(fpc = "sources" /\ fpc' = "running") =>
          /\ pc = "idle" /\ new_quotes = EmptyFrame /\ fetchLog = <<>>
          /\ args'.src = Head(queue).src]_vars
  /\ [][fpc = "running" =>
          \A s \in Sources \ {args.src} : quotesFile'[s] = quotesFile[s]]_vars

\* the second source of a call with tickers is being fetched after the first
\* one was fetched, saved and collected
C33_Witness ==
  /\ fpc = "running" /\ pc = "fetch" /\ fetchLog # <<>>
  /\ call.tickers # {}
  /\ tickersFile.exists
  /\ args.src = "s2"
  /\ quotesFile["s1"] # EmptyFrame
  /\ \E x \in DOMAIN frames : x.source_key = "s1"

(* ------------------------------- C34 ----------------------------------- *)
\* C34: a get_tickers call leaves the persisted rows of every source it does
\* not call as they are, last_updated included; a row the call adds or changes
\* belongs to a source called in it and carries the day of the call.
C34_UnrefreshedRowsStand ==
  [][TickersStep =>
       LET old == df_tickers_pre
           new == tickersFile'.rows
       IN /\ \A s \in Sources \ tickerCalls' :
               /\ RowsOf(new, s) = RowsOf(old, s)
               /\ \A r \in RowsOf(old, s) : new[r] = old[r]
          /\ \A r \in DOMAIN new :
               (r \notin DOMAIN old \/ new[r] # old[r]) =>
                  r.source_key \in tickerCalls' /\ r.last_updated = today
    ]_vars

\* the last call fetched s1 only; the catalog holds rows of s2 stamped on an
\* earlier day beside the rows of s1 stamped today
C34_Witness ==
  /\ pc = "idle" /\ tickerCalls = {"s1"} /\ "s2" \in plugins
  /\ tickersFetched # EmptyFrame
  /\ \E r \in RowsOf(tickersFile.rows, "s2") : r.last_updated < today
  /\ \E r \in RowsOf(tickersFile.rows, "s1") : r.last_updated = today

(* ------------------------------- C35 ----------------------------------- *)
\* a step of MFTools.get_tickers
MFToolsStep == pc = "idle" /\ call'.op = "MFTools.get_tickers" /\ today' = today

\* C35: MFTools.get_tickers with filters or source_keys keeps in the persisted
\* catalog, unchanged, every persisted row that they do not select.
C35_UnmatchedRowsRetained ==
  [][MFToolsStep =>
       LET old == df_tickers_pre
           new == tickersFile'.rows
           selected == filter_tickers(old, call'.source_keys, call'.filters)
       IN \A r \in DOMAIN old \ DOMAIN selected :
             r \in DOMAIN new /\ new[r] = old[r]
    ]_vars

(* ------------------------------- C36 ----------------------------------- *)
\* C36: when a call on an ALL_TICKERS source ends, normally or by an
\* exception, every row it fetched for a day it recorded in the ledger is in
\* the persisted table of the source.
C36_LedgerImpliesPersisted ==
  [][(CallEnds /\ IsAllTickers(args.src)) =>
       \A r \in DOMAIN new_quotes :
          r.date \in ledger'[args.src] \ ledgerAtCall =>
             QuoteKey(r) \in QuoteKeys(quotesFile'[args.src])
    ]_vars

(* ------------------------------- C37 ----------------------------------- *)
\* a step in which the get_quotes of an ALL_TICKERS source was called and
\* returned a value
AllTickersFetchReturns ==
  /\ pc = "fetch" /\ IsAllTickers(args.src)
  /\ Len(fetchLog') = Len(fetchLog) + 1

\* C37: as soon as the adapter of an ALL_TICKERS source has returned for a
\* missing span, with rows, without rows or with an empty sequence, the
\* settled days of the span are in the ledger.
C37_ReturnedSpanRecorded ==
  [][AllTickersFetchReturns =>
       LET f == fetchLog'[Len(fetchLog')] IN
       \A d \in date_range(f.start, f.end) :
          d <= settled_until(args.src) => d \in ledger'[args.src]
    ]_vars

(* ------------------------------- C38 ----------------------------------- *)
\* the symbols the call's tickers resolve to for one source
ServedSymbols(c, catalog, src) ==
  {t.symbol : t \in {x \in ServedBy(c, catalog) : x.source_key = src}}

\* C38: a ticker without a source key stands for that symbol in every source
\* whose catalog rows hold it, a ticker (symbol, source_key) for that symbol in
\* that source whether the catalog holds it or not: each source is queued
\* with exactly those symbols, and the call returns, per source_key, exactly
\* the cached rows of those symbols inside the window.
C38_SourceResolution ==
  /\ [][(FacadeStep /\ ~ReversedWindow(call') /\ call'.tickers # {}) =>
          LET entries == {queue'[i] : i \in DOMAIN queue'} IN
          \A s \in Sources :
             LET wanted == ServedSymbols(call', tickersFile'.rows, s) IN
             /\ (wanted # {}) = (\E e \in entries : e.src = s)
             /\ \A e \in entries : e.src = s => e.symbols = wanted
             /\ Cardinality({i \in DOMAIN queue' : queue'[i].src = s}) <= 1]_vars
  /\ [][(fpc = "running" /\ fpc' = "idle" /\ call.tickers # {}) =>
          /\ \A x \in DOMAIN frames' :
               /\ x.symbol \in ServedSymbols(call, tickersFile.rows, x.source_key)
               /\ WindowStart(call, x.source_key) <= x.date
               /\ x.date <= WindowEnd(call)
          /\ \A s \in Sources :
               \A r \in DOMAIN quotesFile[s] :
                  (/\ r.symbol \in ServedSymbols(call, tickersFile.rows, s)
                   /\ WindowStart(call, s) <= r.date /\ r.date <= WindowEnd(call))
                  => WithSource(r, s) \in DOMAIN frames']_vars

\* a call for A and (B, s2) has returned rows of A from both sources and a
\* row of B from s2, whose catalog rows do not hold B
C38_Witness ==
  /\ fpc = "idle" /\ error = "none" /\ call.op = "get_quotes"
  /\ call.tickers = {[symbol |-> "A", source_key |-> Null],
                     [symbol |-> "B", source_key |-> "s2"]}
  /\ \A r \in DOMAIN tickersFile.rows : ~(r.symbol = "B" /\ r.source_key = "s2")
  /\ \E x \in DOMAIN frames : x.symbol = "A" /\ x.source_key = "s1"
  /\ \E x \in DOMAIN frames : x.symbol = "A" /\ x.source_key = "s2"
  /\ \E x \in DOMAIN frames : x.symbol = "B" /\ x.source_key = "s2"

(* ------------------------------- C39 ----------------------------------- *)
\* C39: no step of a get_quotes call, whatever its arguments and whatever the
\* adapter returns or raises, removes a (symbol, date) key from the persisted
\* quote table of a source.
C39_QuoteKeysNeverLost ==
  [][quotesFile' # quotesFile =>
       \A s \in Sources : QuoteKeys(quotesFile[s]) \subseteq QuoteKeys(quotesFile'[s])]_vars

\* the call that just returned rows of its window left in the table a key
\* outside its window, saved by an earlier call
C39_Witness ==
  /\ pc = "idle" /\ lastArgs # None
  /\ result # EmptyFrame
  /\ LET last == lastArgs[1] IN
       \E r \in DOMAIN quotesFile[last.src] :
          r.date < last.start \/ r.date > last.end \/ r.symbol \notin last.symbols

====
